---- MODULE Spec2Model ----
(***************************************************************************)
(* Dagon container backends: the per-task sandbox lifecycle of             *)
(* ApptainerTask, RemoteApptainerTask, KubernetesTask and                  *)
(* RemoteKubernetesTask (dagon/apptainer_task.py, dagon/kubernetes_task.py)*)
(* and the completion wait of NomadTask (dagon/nomad_task.py).             *)
(*                                                                         *)
(* One task instance is shared by the threads of the workflow engine.      *)
(* Every method is cut into steps at the points where it reads or writes   *)
(* a field of the task or calls the backend; a thread may be pre-empted    *)
(* between any two steps.  Backend answers are chosen nondeterministically.*)
(***************************************************************************)
EXTENDS Integers, Sequences, FiniteSets, TLC

\* ------------------------------------------------------------- bounds
\* Calls of a public method the threads may start, in total.
MaxCalls == 3
\* Sandbox identities (uuid4 + millisecond timestamp) that may be generated.
MaxIds == 3
\* Polls of RemoteKubernetesTask.create_pod (max_wait = 300 in the source).
MaxWait == 2

Threads == {1, 2}
Ids == 1 .. MaxIds

\* Python's None, for fields holding an identity, a path, a result.
NoneId == 0
NonePath == "None"
NoneResult == << >>

Kinds == {"ApptainerTask", "RemoteApptainerTask", "KubernetesTask", "RemoteKubernetesTask",
          "DockerTask", "Checkpoint"}
ApptainerKinds == {"ApptainerTask", "RemoteApptainerTask"}
KubernetesKinds == {"KubernetesTask", "RemoteKubernetesTask"}
SandboxKinds == ApptainerKinds \cup KubernetesKinds
\* image: a docker:// source to build from, or a .sif path that exists or not.
Images == {"docker", "sif_present", "sif_missing"}
Phases == {"absent", "Pending", "Running", "Failed"}

VARIABLES
    kind,           \* the class __new__ selected
    image,          \* self.image
    remove,         \* self.remove
    task,           \* the fields of the task instance
    lock,           \* self._lock: 0 when free, else the holding thread
    pc,             \* per thread: the statement it is at
    ret,            \* per thread: where create_container / create_pod returns to
    polls,          \* per thread: the loop variable of RemoteKubernetesTask.create_pod
    local_result,   \* per thread: on_execute's local `result`
    outcome,        \* per thread: how its last public call ended
    pods,           \* the cluster: phase of every pod name
    sifs,           \* container ids whose built SIF file exists
    overlays,       \* container ids whose overlay image exists
    hist,           \* the backend calls issued so far
    prov,           \* the build commands of the provisioning under way (or the last one)
    calls,          \* public calls started
    overlapped,     \* whether two public calls ever ran at the same time
    \* NomadTask
    job_id,         \* self.job_id
    job_submitted,  \* self.job_submitted
    allocation_id,  \* self.allocation_id
    n_pc,           \* where the thread driving the Nomad task is
    waited,         \* time.time() - start_time inside _wait_for_completion
    n_result,       \* what _wait_for_completion / on_execute returned
    nomad_jobs,     \* the Nomad server: status of every job id
    n_hist,         \* requests made to the Nomad server, and what the wait saw
    \* the host's file system
    workdirs,       \* container ids whose Apptainer work directory exists
    \* DockerTask
    docker,         \* self.container, the daemon's containers, the calls issued
    \* Checkpoint
    ckpt,           \* self.working_dir, the directories on disk, workflow.checkpoints
    \* reference resolution
    stg,            \* pre_process_command and on_execute of a task whose command has references
    xfer,           \* one stage_in between two sandboxes, with the file's contents
    fmt,            \* the structured result built from a command's output
    ctor,           \* one construction of a backend task and the class it yields
    eq,             \* the local and the remote variant run side by side on one input
    cp,             \* a workflow with Checkpoint tasks: directories, records, files
    wf,             \* a workflow run: the state of each task of the DAG
    cs,             \* two stage_in calls under way on one source task
    lp,             \* the destination paths of two references of one command
    sr              \* a source task's sandboxes and a dependent resolving a reference to it

taskVars == <<kind, image, remove, task, lock, pc, ret, polls, local_result, outcome,
              pods, sifs, overlays, hist, prov, calls, overlapped>>
nomadVars == <<job_id, job_submitted, allocation_id, n_pc, waited, n_result, nomad_jobs, n_hist>>
lastVars == <<cs, lp, sr>>
laterVars == <<ctor, eq, cp, wf, lastVars>>
dataVars == <<stg, xfer, fmt, laterVars>>
notTask == <<nomadVars, dataVars>>
notNomad == <<taskVars, workdirs, docker, ckpt, dataVars>>
vars == <<taskVars, nomadVars, workdirs, docker, ckpt, dataVars>>

\* ------------------------------------------------------------- helpers
IsApptainer == kind \in ApptainerKinds
IsRemote == kind \in {"RemoteApptainerTask", "RemoteKubernetesTask"}

\* container_id for Apptainer, pod_name for Kubernetes.
SandboxId(tk) == IF IsApptainer THEN tk.container_id ELSE tk.pod_name

\* on_execute's local result before anything was run.
NoLocal == [output |-> "None", code |-> 0]

NoOutcome == [op |-> "none", status |-> "none", after |-> "absent", value |-> NoneResult]

\* The sandbox is fully provisioned: everything create_container / create_pod
\* is documented to prepare is set.
Provisioned(tk, pd) ==
    CASE kind = "ApptainerTask" ->
            /\ tk.sif_file # NonePath /\ tk.staging_dir # NonePath
            /\ tk.overlay_file # NoneId /\ tk.info # NoneId
      [] kind = "RemoteApptainerTask" ->
            /\ tk.sif_file # NonePath /\ tk.staging_dir # NonePath
            /\ tk.info # NoneId
      [] OTHER ->
            /\ tk.pod_name # NoneId /\ tk.info # NoneId
            /\ pd[tk.pod_name] = "Running"

\* No build command issued yet.
NoBuilds == [builds |-> 0, first_build |-> "none", sudo_build |-> "none", overlay |-> "none"]

Bump(h, f) == [h EXCEPT ![f] = @ + 1]

\* ------------------------------------------------------------- construction
InitFields ==
    /\ task = [container_id |-> NoneId, sif_file |-> NonePath, overlay_file |-> NoneId,
               work_dir |-> NonePath, staging_dir |-> NonePath, info |-> NoneId,
               pod_name |-> NoneId, executed |-> FALSE, execution_result |-> NoneResult]
    /\ lock = 0
    /\ pc = [t \in Threads |-> "idle"]
    /\ ret = [t \in Threads |-> "top"]
    /\ polls = [t \in Threads |-> 0]
    /\ local_result = [t \in Threads |-> NoLocal]
    /\ outcome = [t \in Threads |-> NoOutcome]
    /\ pods = [p \in Ids |-> "absent"]
    /\ sifs = {}
    /\ overlays = {}
    /\ hist = [ids |-> 0, builds |-> 0, sudo_builds |-> 0, overlay_creates |-> 0,
               pod_creates |-> 0, dispatched |-> 0, unready_exec |-> 0, teardowns |-> 0,
               deletes |-> 0]
    /\ prov = NoBuilds
    /\ calls = 0
    /\ overlapped = FALSE
    /\ job_id = NoneId
    /\ job_submitted = FALSE
    /\ allocation_id = NoneId
    /\ n_pc = "idle"
    /\ waited = 0
    /\ n_result = NoneResult
    /\ nomad_jobs = [j \in Ids |-> "absent"]
    /\ n_hist = [ids |-> 0, posts |-> 0, accepted |-> 0, purges |-> 0, calls |-> 0,
                 saw_dead |-> FALSE, seen |-> << >>]
    /\ workdirs = {}
    /\ docker = [container |-> NoneId, containers |-> [c \in Ids |-> "absent"],
                 runs |-> 0, stops |-> 0, removes |-> 0]
    /\ ckpt = [working_dir |-> 0, dirs |-> {}, recorded |-> << >>, written |-> 0]

\* No reference is being resolved, no file staged, no result formatted.
NoStaging == [pc |-> "none"]
NoTransfer == [pc |-> "none"]
NoFormat == [pc |-> "none"]
NoConstruction == [pc |-> "none"]
NoPair == [pc |-> "none"]
NoCheckpoints == [pc |-> "none"]
NoRun == [pc |-> "none"]
NoConcurrent == [pc |-> "none"]
NoPaths == [pc |-> "none"]
NoSource == [pc |-> "none"]
InitLast == cs = NoConcurrent /\ lp = NoPaths /\ sr = NoSource
InitLater == ctor = NoConstruction /\ eq = NoPair /\ cp = NoCheckpoints /\ wf = NoRun /\ InitLast
InitData == stg = NoStaging /\ xfer = NoTransfer /\ fmt = NoFormat /\ InitLater

\* A task of one of the container classes, or a Checkpoint, as constructed.
InitTask ==
    /\ kind \in Kinds
    /\ image \in (IF kind \in ApptainerKinds THEN Images ELSE {"docker"})
    /\ remove \in BOOLEAN
    /\ InitFields
    /\ InitData

\* A NomadTask as constructed.
InitNomad ==
    /\ kind = "NomadTask"
    /\ image = "docker"
    /\ remove = FALSE
    /\ InitFields
    /\ InitData

\* ------------------------------------------------------------- frames
Config == <<kind, image, remove>>
World == <<pods, sifs, overlays>>
Ghost == <<prov, calls, overlapped>>

\* Lifecycle state of the sandbox as the task's fields show it.
Absent(tk) ==
    /\ tk.container_id = NoneId /\ tk.pod_name = NoneId /\ tk.info = NoneId
    /\ tk.work_dir = NonePath /\ tk.staging_dir = NonePath /\ tk.sif_file = NonePath

SandboxState(tk, pd) ==
    IF Provisioned(tk, pd) THEN "ready" ELSE IF Absent(tk) THEN "absent" ELSE "partial"

\* create_container / create_pod returns normally: to its caller inside on_execute,
\* or to the thread that called it directly (stage_in of a dependent task).
CreateReturns(t, tk, pd) ==
    /\ pc' = [pc EXCEPT ![t] = IF ret[t] = "top" THEN "idle" ELSE ret[t]]
    /\ ret' = [ret EXCEPT ![t] = "top"]
    /\ outcome' = [outcome EXCEPT ![t] =
          IF ret[t] = "top"
          THEN [op |-> "create", status |-> "returned", after |-> SandboxState(tk, pd),
                value |-> NoneResult]
          ELSE @]

\* An exception leaves create_container / create_pod; on_execute and
\* pre_process_command do not catch it, so it ends the public call.
CreateRaises(t, tk, pd) ==
    /\ pc' = [pc EXCEPT ![t] = "idle"]
    /\ ret' = [ret EXCEPT ![t] = "top"]
    /\ outcome' = [outcome EXCEPT ![t] =
          [op |-> IF ret[t] = "top" THEN "create" ELSE "on_execute", status |-> "raised",
           after |-> SandboxState(tk, pd), value |-> NoneResult]]

Goto(t, label) == pc' = [pc EXCEPT ![t] = label]

\* ------------------------------------------------------------- ApptainerTask.create_container
\* `if self.container_id is not None: return` before the lock.
ApptainerTask_create_container_check(t) ==
    /\ kind = "ApptainerTask" /\ pc[t] = "cc_check"
    /\ IF task.container_id # NoneId
       THEN CreateReturns(t, task, pods)
       ELSE Goto(t, "cc_lock") /\ UNCHANGED <<ret, outcome>>
    /\ UNCHANGED <<notTask, workdirs, docker, ckpt, Config, World, task, lock, polls, local_result, hist, prov, calls, overlapped>>

\* The lock taken without waiting for it to be free.
ApptainerTask_create_container_lock_unguarded(t) ==
    /\ kind = "ApptainerTask" /\ pc[t] = "cc_lock"
    /\ lock' = t
    /\ Goto(t, "cc_locked")
    /\ UNCHANGED <<notTask, workdirs, docker, ckpt, Config, World, task, ret, polls, local_result, outcome, hist, prov, calls, overlapped>>

\* `with self._lock:` blocks until the lock is free.
ApptainerTask_create_container_lock(t) ==
    /\ kind = "ApptainerTask" /\ pc[t] = "cc_lock"
    /\ lock = 0
    /\ lock' = t
    /\ Goto(t, "cc_locked")
    /\ UNCHANGED <<notTask, workdirs, docker, ckpt, Config, World, task, ret, polls, local_result, outcome, hist, prov, calls, overlapped>>

\* Inside the lock: `if self.container_id is not None: return`.
ApptainerTask_create_container_locked(t) ==
    /\ kind = "ApptainerTask" /\ pc[t] = "cc_locked"
    /\ IF task.container_id # NoneId
       THEN lock' = 0 /\ CreateReturns(t, task, pods)
       ELSE Goto(t, "cc_id") /\ UNCHANGED <<lock, ret, outcome>>
    /\ UNCHANGED <<notTask, workdirs, docker, ckpt, Config, World, task, polls, local_result, hist, prov, calls, overlapped>>

\* The identity, then the work and staging directories.
ApptainerTask_create_container_id(t) ==
    /\ kind = "ApptainerTask" /\ pc[t] = "cc_id"
    /\ hist.ids < MaxIds
    /\ task' = [task EXCEPT !.container_id = hist.ids + 1,
                            !.work_dir = "apptainer_work",
                            !.staging_dir = "staging"]
    /\ workdirs' = workdirs \cup {hist.ids + 1}
    /\ hist' = Bump(hist, "ids")
    /\ prov' = NoBuilds
    /\ Goto(t, "cc_sif")
    /\ UNCHANGED <<notTask, docker, ckpt, Config, World, lock, ret, polls, local_result, outcome, calls, overlapped>>

\* _run_apptainer_command: subprocess.run(check=True, timeout=300) returns, raises
\* CalledProcessError (a non-zero exit, whatever its reason) or raises TimeoutExpired.
RunOutcomes == {"ok", "permission_denied", "other_error", "TimeoutExpired"}
\* `except Exception` in place of `except subprocess.CalledProcessError`.
IsAnyFailure(r) == r # "ok"

IsCalledProcessError(r) == r \in {"permission_denied", "other_error"}

\* _prepare_sif_image, first build attempt.  An existing .sif is used as is, a
\* missing one raises FileNotFoundError; otherwise sif_file is set and the build runs.
\* `except subprocess.CalledProcessError` leads to the sudo attempt; TimeoutExpired
\* is not caught.
ApptainerTask_prepare_sif_image(t) ==
    /\ kind = "ApptainerTask" /\ pc[t] = "cc_sif"
    /\ \/ /\ image = "sif_present"
          /\ task' = [task EXCEPT !.sif_file = "image"]
          /\ Goto(t, "cc_overlay")
          /\ UNCHANGED <<lock, ret, outcome, hist, sifs, prov>>
       \/ /\ image = "sif_missing"
          /\ lock' = 0
          /\ CreateRaises(t, task, pods)
          /\ UNCHANGED <<task, hist, sifs, prov>>
       \/ /\ image = "docker"
          /\ task' = [task EXCEPT !.sif_file = "built"]
          /\ hist' = Bump(hist, "builds")
          /\ \E r \in RunOutcomes :
                /\ prov' = [prov EXCEPT !.builds = @ + 1, !.first_build = r]
                /\ CASE r = "ok" ->
                           /\ sifs' = sifs \cup {task.container_id}
                           /\ Goto(t, "cc_overlay")
                           /\ UNCHANGED <<lock, ret, outcome>>
                     [] IsCalledProcessError(r) ->
                           /\ Goto(t, "cc_sudo")
                           /\ UNCHANGED <<lock, ret, outcome, sifs>>
                     [] OTHER ->
                           /\ lock' = 0
                           /\ CreateRaises(t, task', pods)
                           /\ UNCHANGED sifs
    /\ UNCHANGED <<notTask, workdirs, docker, ckpt, Config, pods, overlays, polls, local_result, calls, overlapped>>

\* _prepare_sif_image, the except branch: the same build with "sudo" in front.
\* Nothing catches its failure, which leaves create_container.
ApptainerTask_prepare_sif_image_sudo(t) ==
    /\ kind = "ApptainerTask" /\ pc[t] = "cc_sudo"
    /\ hist' = Bump(Bump(hist, "builds"), "sudo_builds")
    /\ \E r \in RunOutcomes :
          /\ prov' = [prov EXCEPT !.builds = @ + 1, !.sudo_build = r]
          /\ IF r = "ok"
             THEN /\ sifs' = sifs \cup {task.container_id}
                  /\ Goto(t, "cc_overlay")
                  /\ UNCHANGED <<lock, ret, outcome>>
             ELSE /\ lock' = 0
                  /\ CreateRaises(t, task, pods)
                  /\ UNCHANGED sifs
    /\ UNCHANGED <<notTask, workdirs, docker, ckpt, Config, pods, overlays, task, polls, local_result, calls, overlapped>>

\* _create_overlay: overlay_file is set, then `apptainer overlay create` runs.
ApptainerTask_create_overlay(t) ==
    /\ kind = "ApptainerTask" /\ pc[t] = "cc_overlay"
    /\ task' = [task EXCEPT !.overlay_file = task.container_id]
    /\ hist' = Bump(hist, "overlay_creates")
    /\ \E r \in RunOutcomes :
          /\ prov' = [prov EXCEPT !.overlay = r]
          /\ IF r = "ok"
             THEN /\ overlays' = overlays \cup {task.container_id}
                  /\ Goto(t, "cc_info")
                  /\ UNCHANGED <<lock, ret, outcome>>
             ELSE /\ lock' = 0
                  /\ CreateRaises(t, task', pods)
                  /\ UNCHANGED overlays
    /\ UNCHANGED <<notTask, workdirs, docker, ckpt, Config, pods, sifs, polls, local_result, calls, overlapped>>

\* self.info = {...}; the with block ends and the call returns.
ApptainerTask_create_container_info(t) ==
    /\ kind = "ApptainerTask" /\ pc[t] = "cc_info"
    /\ task' = [task EXCEPT !.info = task.container_id]
    /\ lock' = 0
    /\ CreateReturns(t, task', pods)
    /\ UNCHANGED <<notTask, workdirs, docker, ckpt, Config, World, polls, local_result, hist, prov, calls, overlapped>>

\* ------------------------------------------------------------- RemoteApptainerTask.create_container
RemoteApptainerTask_create_container_check(t) ==
    /\ kind = "RemoteApptainerTask" /\ pc[t] = "cc_check"
    /\ IF task.container_id # NoneId
       THEN CreateReturns(t, task, pods)
       ELSE Goto(t, "cc_lock") /\ UNCHANGED <<ret, outcome>>
    /\ UNCHANGED <<notTask, workdirs, docker, ckpt, Config, World, task, lock, polls, local_result, hist, prov, calls, overlapped>>

RemoteApptainerTask_create_container_lock(t) ==
    /\ kind = "RemoteApptainerTask" /\ pc[t] = "cc_lock"
    /\ lock = 0
    /\ lock' = t
    /\ Goto(t, "cc_locked")
    /\ UNCHANGED <<notTask, workdirs, docker, ckpt, Config, World, task, ret, polls, local_result, outcome, hist, prov, calls, overlapped>>

RemoteApptainerTask_create_container_locked(t) ==
    /\ kind = "RemoteApptainerTask" /\ pc[t] = "cc_locked"
    /\ IF task.container_id # NoneId
       THEN lock' = 0 /\ CreateReturns(t, task, pods)
       ELSE Goto(t, "cc_id") /\ UNCHANGED <<lock, ret, outcome>>
    /\ UNCHANGED <<notTask, workdirs, docker, ckpt, Config, World, task, polls, local_result, hist, prov, calls, overlapped>>

\* The identity; work_dir is the task's working_dir; the staging directory is made
\* over ssh (the answer of that mkdir is not looked at).
RemoteApptainerTask_create_container_id(t) ==
    /\ kind = "RemoteApptainerTask" /\ pc[t] = "cc_id"
    /\ hist.ids < MaxIds
    /\ task' = [task EXCEPT !.container_id = hist.ids + 1,
                            !.work_dir = "working_dir",
                            !.staging_dir = ".apptainer_staging"]
    /\ hist' = Bump(hist, "ids")
    /\ Goto(t, "cc_sif")
    /\ UNCHANGED <<notTask, workdirs, docker, ckpt, Config, World, lock, ret, polls, local_result, outcome, prov, calls, overlapped>>

\* Remote _prepare_sif_image: `test -f` for a .sif; otherwise one build over ssh,
\* judged by whether the file exists afterwards.  There is no second attempt.
RemoteApptainerTask_prepare_sif_image(t) ==
    /\ kind = "RemoteApptainerTask" /\ pc[t] = "cc_sif"
    /\ \/ /\ image = "sif_present"
          /\ task' = [task EXCEPT !.sif_file = "image", !.info = task.container_id]
          /\ lock' = 0
          /\ CreateReturns(t, task', pods)
          /\ UNCHANGED <<hist, sifs>>
       \/ /\ image = "sif_missing"
          /\ lock' = 0
          /\ CreateRaises(t, task, pods)
          /\ UNCHANGED <<task, hist, sifs>>
       \/ /\ image = "docker"
          /\ hist' = Bump(hist, "builds")
          /\ \E built \in BOOLEAN :
                IF built
                THEN /\ task' = [task EXCEPT !.sif_file = "built", !.info = task.container_id]
                     /\ sifs' = sifs \cup {task.container_id}
                     /\ lock' = 0
                     /\ CreateReturns(t, task', pods)
                ELSE /\ task' = [task EXCEPT !.sif_file = "built"]
                     /\ lock' = 0
                     /\ CreateRaises(t, task', pods)
                     /\ UNCHANGED sifs
    /\ UNCHANGED <<notTask, workdirs, docker, ckpt, Config, pods, overlays, polls, local_result, prov, calls, overlapped>>

\* ------------------------------------------------------------- KubernetesTask.create_pod
\* `if self.pod_name is not None: return`.  KubernetesTask.__init__ makes no lock.
KubernetesTask_create_pod_check(t) ==
    /\ kind = "KubernetesTask" /\ pc[t] = "cp_check"
    /\ IF task.pod_name # NoneId
       THEN CreateReturns(t, task, pods)
       ELSE Goto(t, "cp_name") /\ UNCHANGED <<ret, outcome>>
    /\ UNCHANGED <<notTask, workdirs, docker, ckpt, Config, World, task, lock, polls, local_result, hist, prov, calls, overlapped>>

\* self.pod_name = f"{name}-{uuid}-{time}".
KubernetesTask_create_pod_name(t) ==
    /\ kind = "KubernetesTask" /\ pc[t] = "cp_name"
    /\ hist.ids < MaxIds
    /\ task' = [task EXCEPT !.pod_name = hist.ids + 1]
    /\ hist' = Bump(hist, "ids")
    /\ Goto(t, "cp_create")
    /\ UNCHANGED <<notTask, workdirs, docker, ckpt, Config, World, lock, ret, polls, local_result, outcome, prov, calls, overlapped>>

\* The manifest is built from self.pod_name as it is now; create_namespaced_pod is
\* called inside try/except Exception, so a refused creation is only printed.
KubernetesTask_create_pod_create(t) ==
    /\ kind = "KubernetesTask" /\ pc[t] = "cp_create"
    /\ hist' = Bump(hist, "pod_creates")
    /\ \E accepted \in BOOLEAN :
          pods' = IF accepted /\ task.pod_name # NoneId /\ pods[task.pod_name] = "absent"
                  THEN [pods EXCEPT ![task.pod_name] = "Pending"]
                  ELSE pods
    /\ Goto(t, "cp_poll")
    /\ UNCHANGED <<notTask, workdirs, docker, ckpt, Config, sifs, overlays, task, lock, ret, polls, local_result, outcome,
                   prov, calls, overlapped>>

\* One round of `while True`: read_namespaced_pod raises for a pod that does not
\* exist; Running sets info and leaves the loop; Failed raises; else sleep.
KubernetesTask_create_pod_poll(t) ==
    /\ kind = "KubernetesTask" /\ pc[t] = "cp_poll"
    /\ LET phase == IF task.pod_name = NoneId THEN "absent" ELSE pods[task.pod_name] IN
       CASE phase = "Running" ->
               /\ task' = [task EXCEPT !.info = task.pod_name]
               /\ CreateReturns(t, task', pods)
         [] phase = "Pending" ->
               /\ Goto(t, "cp_sleep")
               /\ UNCHANGED <<task, ret, outcome>>
         [] OTHER ->
               /\ CreateRaises(t, task, pods)
               /\ UNCHANGED task
    /\ UNCHANGED <<notTask, workdirs, docker, ckpt, Config, World, lock, polls, local_result, hist, prov, calls, overlapped>>

\* time.sleep(0.5), then the next round.
KubernetesTask_create_pod_sleep(t) ==
    /\ kind = "KubernetesTask" /\ pc[t] = "cp_sleep"
    /\ Goto(t, "cp_poll")
    /\ UNCHANGED <<notTask, workdirs, docker, ckpt, Config, World, task, lock, ret, polls, local_result, outcome, hist,
                   prov, calls, overlapped>>

\* ------------------------------------------------------------- RemoteKubernetesTask.create_pod
RemoteKubernetesTask_create_pod_check(t) ==
    /\ kind = "RemoteKubernetesTask" /\ pc[t] = "cp_check"
    /\ IF task.pod_name # NoneId
       THEN CreateReturns(t, task, pods)
       ELSE Goto(t, "cp_lock") /\ UNCHANGED <<ret, outcome>>
    /\ UNCHANGED <<notTask, workdirs, docker, ckpt, Config, World, task, lock, polls, local_result, hist, prov, calls, overlapped>>

RemoteKubernetesTask_create_pod_lock(t) ==
    /\ kind = "RemoteKubernetesTask" /\ pc[t] = "cp_lock"
    /\ lock = 0
    /\ lock' = t
    /\ Goto(t, "cp_locked")
    /\ UNCHANGED <<notTask, workdirs, docker, ckpt, Config, World, task, ret, polls, local_result, outcome, hist, prov, calls, overlapped>>

\* Inside the lock: `if self.pod_name is not None: return`.
RemoteKubernetesTask_create_pod_locked(t) ==
    /\ kind = "RemoteKubernetesTask" /\ pc[t] = "cp_locked"
    /\ IF task.pod_name # NoneId
       THEN lock' = 0 /\ CreateReturns(t, task, pods)
       ELSE Goto(t, "cp_name") /\ UNCHANGED <<lock, ret, outcome>>
    /\ UNCHANGED <<notTask, workdirs, docker, ckpt, Config, World, task, polls, local_result, hist, prov, calls, overlapped>>

\* The name, then the manifest written over ssh.
RemoteKubernetesTask_create_pod_name(t) ==
    /\ kind = "RemoteKubernetesTask" /\ pc[t] = "cp_name"
    /\ hist.ids < MaxIds
    /\ task' = [task EXCEPT !.pod_name = hist.ids + 1]
    /\ hist' = Bump(hist, "ids")
    /\ Goto(t, "cp_apply")
    /\ UNCHANGED <<notTask, workdirs, docker, ckpt, Config, World, lock, ret, polls, local_result, outcome, prov, calls, overlapped>>

\* `kubectl apply` through _run_kubectl_command, which raises on a non-zero code.
RemoteKubernetesTask_create_pod_apply(t) ==
    /\ kind = "RemoteKubernetesTask" /\ pc[t] = "cp_apply"
    /\ hist' = Bump(hist, "pod_creates")
    /\ \E accepted \in BOOLEAN :
          IF accepted /\ task.pod_name # NoneId /\ pods[task.pod_name] = "absent"
          THEN /\ pods' = [pods EXCEPT ![task.pod_name] = "Pending"]
               /\ polls' = [polls EXCEPT ![t] = 0]
               /\ Goto(t, "cp_poll")
               /\ UNCHANGED <<lock, ret, outcome>>
          ELSE /\ lock' = 0
               /\ CreateRaises(t, task, pods)
               /\ UNCHANGED <<pods, polls>>
    /\ UNCHANGED <<notTask, workdirs, docker, ckpt, Config, sifs, overlays, task, local_result, prov, calls, overlapped>>

\* One round of `for _ in range(max_wait)`, or its else branch when the rounds
\* are used up.  Every kubectl call may fail, which raises.
RemoteKubernetesTask_create_pod_poll(t) ==
    /\ kind = "RemoteKubernetesTask" /\ pc[t] = "cp_poll"
    /\ IF polls[t] >= MaxWait
       THEN /\ lock' = 0
            /\ CreateRaises(t, task, pods)
            /\ UNCHANGED <<task, polls>>
       ELSE LET phase == IF task.pod_name = NoneId THEN "absent" ELSE pods[task.pod_name] IN
            \E kubectl_ok \in BOOLEAN :
               CASE kubectl_ok /\ phase = "Running" ->
                       /\ task' = [task EXCEPT !.info = task.pod_name]
                       /\ lock' = 0
                       /\ CreateReturns(t, task', pods)
                       /\ UNCHANGED polls
                 [] kubectl_ok /\ phase = "Pending" ->
                       /\ polls' = [polls EXCEPT ![t] = @ + 1]
                       /\ UNCHANGED <<task, lock, pc, ret, outcome>>
                 [] OTHER ->
                       /\ lock' = 0
                       /\ CreateRaises(t, task, pods)
                       /\ UNCHANGED <<task, polls>>
    /\ UNCHANGED <<notTask, workdirs, docker, ckpt, Config, World, local_result, hist, prov, calls, overlapped>>

\* ------------------------------------------------------------- the cluster
\* A pending pod starts running or fails.
PodProgress(p) ==
    /\ pods[p] = "Pending"
    /\ \E ph \in {"Running", "Failed"} : pods' = [pods EXCEPT ![p] = ph]
    /\ UNCHANGED <<notTask, workdirs, docker, ckpt, Config, sifs, overlays, task, lock, pc, ret, polls, local_result, outcome,
                   hist, prov, calls, overlapped>>

\* ------------------------------------------------------------- on_execute
\* How on_execute ends for its caller.
ExecuteReturns(t, value) ==
    /\ pc' = [pc EXCEPT ![t] = "idle"]
    /\ outcome' = [outcome EXCEPT ![t] =
          [op |-> "on_execute", status |-> "returned", after |-> SandboxState(task, pods),
           value |-> value]]

ExecuteRaises(t) ==
    /\ pc' = [pc EXCEPT ![t] = "idle"]
    /\ outcome' = [outcome EXCEPT ![t] =
          [op |-> "on_execute", status |-> "raised", after |-> SandboxState(task, pods),
           value |-> NoneResult]]

\* The structured result on_execute builds: {"output": ..., "code": ...}.
Result(output, code) == << [output |-> output, code |-> code] >>
Local(output, code) == [output |-> output, code |-> code]

\* `if self.executed: return self.execution_result` (all four classes).
on_execute_guard(t) ==
    /\ pc[t] = "oe_guard"
    /\ IF task.executed
       THEN ExecuteReturns(t, task.execution_result)
       ELSE Goto(t, "oe_create") /\ UNCHANGED outcome
    /\ UNCHANGED <<notTask, workdirs, docker, ckpt, Config, World, task, lock, ret, polls, local_result, hist, prov, calls, overlapped>>

\* `if self.container_id is None: self.create_container()` (pod_name / create_pod).
\* RemoteApptainerTask.on_execute goes on to run the script; the others call
\* pre_process_command first.
on_execute_create(t) ==
    /\ pc[t] = "oe_create"
    /\ LET next == IF kind = "RemoteApptainerTask" THEN "oe_exec" ELSE "oe_pre" IN
       IF SandboxId(task) = NoneId
       THEN /\ Goto(t, IF IsApptainer THEN "cc_check" ELSE "cp_check")
            /\ ret' = [ret EXCEPT ![t] = next]
       ELSE /\ Goto(t, next)
            /\ UNCHANGED ret
    /\ UNCHANGED <<notTask, workdirs, docker, ckpt, Config, World, task, lock, polls, local_result, outcome, hist, prov, calls, overlapped>>

\* pre_process_command: creates the sandbox if the task has none, then rewrites
\* the references of the command (the command here holds none).
pre_process_command(t) ==
    /\ pc[t] = "oe_pre"
    /\ IF SandboxId(task) = NoneId
       THEN /\ Goto(t, IF IsApptainer THEN "cc_check" ELSE "cp_check")
            /\ ret' = [ret EXCEPT ![t] = "oe_exec"]
       ELSE /\ Goto(t, "oe_exec")
            /\ UNCHANGED ret
    /\ UNCHANGED <<notTask, workdirs, docker, ckpt, Config, World, task, lock, polls, local_result, outcome, hist, prov, calls, overlapped>>

\* How the user command ends inside a working sandbox.
CmdOutcomes == {"exit0", "exitNonZero", "timeout"}

\* The text a run of the user command leaves for the caller.
OutputOf(o) == IF o = "exit0" THEN "output_of_success" ELSE "output_of_failure"

\* exec_in_container builds the argument list from overlay_file and sif_file; a None
\* among them makes subprocess.run raise before anything is started.  Otherwise
\* apptainer is started; the command runs only if the image and overlay exist.
\* on_execute catches every exception and keeps its text as the result.
ApptainerTask_exec_in_container(t) ==
    /\ kind = "ApptainerTask" /\ pc[t] = "oe_exec"
    /\ IF task.sif_file = NonePath \/ task.overlay_file = NoneId
       THEN /\ local_result' = [local_result EXCEPT ![t] = Local("Error", 0)]
            /\ hist' = Bump(hist, "unready_exec")
       ELSE LET sandbox_ok == /\ task.overlay_file \in overlays
                              /\ task.work_dir # NonePath
                              /\ \/ task.sif_file = "image"
                                 \/ task.container_id \in sifs IN
            /\ hist' = [hist EXCEPT !.dispatched = @ + 1,
                                    !.unready_exec = @ + (IF Provisioned(task, pods) THEN 0 ELSE 1)]
            /\ \E o \in (IF sandbox_ok THEN CmdOutcomes ELSE {"exitNonZero"}) :
                  local_result' = [local_result EXCEPT ![t] =
                                      Local(IF o = "exit0" THEN OutputOf(o) ELSE "Error", 0)]
    /\ Goto(t, "oe_mark")
    /\ UNCHANGED <<notTask, workdirs, docker, ckpt, Config, World, task, lock, ret, polls, outcome, prov, calls, overlapped>>

\* exec_in_pod through the API stream: it raises when the pod cannot be reached;
\* otherwise it returns whatever the command printed, whatever its exit status.
KubernetesTask_exec_in_pod(t) ==
    /\ kind = "KubernetesTask" /\ pc[t] = "oe_exec"
    /\ IF task.pod_name # NoneId /\ pods[task.pod_name] = "Running"
       THEN /\ hist' = [hist EXCEPT !.dispatched = @ + 1,
                                    !.unready_exec = @ + (IF Provisioned(task, pods) THEN 0 ELSE 1)]
            /\ \E o \in {"exit0", "exitNonZero"} :
                  local_result' = [local_result EXCEPT ![t] = Local(OutputOf(o), 0)]
            /\ Goto(t, "oe_mark")
            /\ UNCHANGED outcome
       ELSE /\ hist' = Bump(hist, "unready_exec")
            /\ ExecuteRaises(t)
            /\ UNCHANGED local_result
    /\ UNCHANGED <<notTask, workdirs, docker, ckpt, Config, World, task, lock, ret, polls, prov, calls, overlapped>>

\* exec_in_pod through `kubectl exec` over ssh: _run_kubectl_command raises on
\* every non-zero code, the user command's included.
RemoteKubernetesTask_exec_in_pod(t) ==
    /\ kind = "RemoteKubernetesTask" /\ pc[t] = "oe_exec"
    /\ IF task.pod_name # NoneId /\ pods[task.pod_name] = "Running"
       THEN /\ hist' = [hist EXCEPT !.dispatched = @ + 1,
                                    !.unready_exec = @ + (IF Provisioned(task, pods) THEN 0 ELSE 1)]
            /\ \E o \in {"exit0", "exitNonZero"} :
                  IF o = "exit0"
                  THEN /\ local_result' = [local_result EXCEPT ![t] = Local(OutputOf(o), 0)]
                       /\ Goto(t, "oe_mark")
                       /\ UNCHANGED outcome
                  ELSE /\ ExecuteRaises(t)
                       /\ UNCHANGED local_result
       ELSE /\ hist' = Bump(hist, "unready_exec")
            /\ ExecuteRaises(t)
            /\ UNCHANGED local_result
    /\ UNCHANGED <<notTask, workdirs, docker, ckpt, Config, World, task, lock, ret, polls, prov, calls, overlapped>>

\* The code the ssh channel reports for
\*   (apptainer exec ...) 2>&1 | grep -v ... | grep -v 'Cleaning up image'
\* is the status of the last grep: 0 when a line is left, 1 when none is.
PipelineCode(lines) == IF lines THEN 0 ELSE 1

\* `if code != 0: if 'FATAL' not in output and 'Error' not in output: code = 0`.
RemoteApptainerTask_result_code(code, marker) ==
    IF code # 0 /\ ~marker THEN 0 ELSE code

\* RemoteApptainerTask.on_execute runs the script itself.  The script exits with
\* some status, prints lines or not, with or without the words FATAL / Error.
RemoteApptainerTask_execute_command(t) ==
    /\ kind = "RemoteApptainerTask" /\ pc[t] = "oe_exec"
    /\ LET sandbox_ok == /\ task.staging_dir # NonePath
                         /\ \/ task.sif_file = "image"
                            \/ task.sif_file = "built" /\ task.container_id \in sifs IN
       /\ hist' = [hist EXCEPT !.dispatched = @ + 1,
                               !.unready_exec = @ + (IF Provisioned(task, pods) THEN 0 ELSE 1)]
       /\ \E o \in (IF sandbox_ok THEN {"exit0", "exitNonZero"} ELSE {"exitNonZero"}),
             lines \in BOOLEAN, marker \in BOOLEAN :
             /\ marker => lines
             /\ ~sandbox_ok => marker
             /\ local_result' = [local_result EXCEPT ![t] =
                   Local(OutputOf(o),
                         RemoteApptainerTask_result_code(PipelineCode(lines), marker))]
    /\ Goto(t, "oe_mark")
    /\ UNCHANGED <<notTask, workdirs, docker, ckpt, Config, World, task, lock, ret, polls, outcome, prov, calls, overlapped>>

\* The result on_execute memoizes: the remote Apptainer variant keeps the ssh
\* answer; the others wrap the text as JSON and always say code 0.
MemoizedResult(t) ==
    IF kind = "RemoteApptainerTask"
    THEN Result(local_result[t].output, local_result[t].code)
    ELSE Result(local_result[t].output, 0)

\* self.executed = True
on_execute_mark(t) ==
    /\ pc[t] = "oe_mark"
    /\ task' = [task EXCEPT !.executed = TRUE]
    /\ Goto(t, "oe_store")
    /\ UNCHANGED <<notTask, workdirs, docker, ckpt, Config, World, lock, ret, polls, local_result, outcome, hist, prov, calls, overlapped>>

\* self.execution_result = ...; return it
on_execute_store(t) ==
    /\ pc[t] = "oe_store"
    /\ task' = [task EXCEPT !.execution_result = MemoizedResult(t)]
    /\ ExecuteReturns(t, MemoizedResult(t))
    /\ UNCHANGED <<notTask, workdirs, docker, ckpt, Config, World, lock, ret, polls, local_result, hist, prov, calls, overlapped>>

\* ------------------------------------------------------------- on_garbage
GarbageReturns(t, tk, pd) ==
    outcome' = [outcome EXCEPT ![t] =
        [op |-> "on_garbage", status |-> "returned", after |-> SandboxState(tk, pd),
         value |-> NoneResult]]

ClearedApptainer(tk) ==
    [tk EXCEPT !.container_id = NoneId, !.sif_file = NonePath, !.overlay_file = NoneId,
               !.work_dir = NonePath, !.staging_dir = NonePath, !.info = NoneId]

\* cleanup_container: rmtree of the work directory when remove is set (a failure is
\* printed), then every reference is cleared.
ShouldRemoveWorkDirUnflagged(rm, tk, wd) == tk.work_dir # NonePath /\ tk.container_id \in wd
ShouldRemoveWorkDir(rm, tk, wd) == rm /\ tk.work_dir # NonePath /\ tk.container_id \in wd

ApptainerTask_cleanup_container(t) ==
    /\ kind = "ApptainerTask" /\ pc[t] = "idle" /\ calls < MaxCalls
    /\ IF ShouldRemoveWorkDir(remove, task, workdirs)
       THEN \E removed \in BOOLEAN :
               /\ workdirs' = IF removed THEN workdirs \ {task.container_id} ELSE workdirs
               /\ sifs' = IF removed THEN sifs \ {task.container_id} ELSE sifs
               /\ overlays' = IF removed THEN overlays \ {task.container_id} ELSE overlays
               /\ hist' = Bump(Bump(hist, "teardowns"), "deletes")
       ELSE UNCHANGED <<workdirs, sifs, overlays>> /\ hist' = Bump(hist, "teardowns")
    /\ task' = ClearedApptainer(task)
    /\ GarbageReturns(t, task', pods)
    /\ calls' = calls + 1
    /\ overlapped' = (overlapped \/ \E u \in Threads \ {t} : pc[u] # "idle")
    /\ UNCHANGED <<notTask, docker, ckpt, Config, pods, lock, pc, ret, polls, local_result, prov>>

\* Remote cleanup_container: with remove set and a sif_file, `rm -rf` of the
\* directory holding sif_file and of the staging directory; then the references
\* are cleared.
RemoteApptainerTask_cleanup_container(t) ==
    /\ kind = "RemoteApptainerTask" /\ pc[t] = "idle" /\ calls < MaxCalls
    /\ IF remove /\ task.sif_file # NonePath
       THEN \E removed \in BOOLEAN :
               /\ sifs' = IF removed /\ task.sif_file = "built"
                          THEN sifs \ {task.container_id} ELSE sifs
               /\ image' = IF removed /\ task.sif_file = "image" THEN "sif_missing" ELSE image
               /\ hist' = Bump(Bump(hist, "teardowns"), "deletes")
       ELSE UNCHANGED <<sifs, image>> /\ hist' = Bump(hist, "teardowns")
    /\ task' = ClearedApptainer(task)
    /\ GarbageReturns(t, task', pods)
    /\ calls' = calls + 1
    /\ overlapped' = (overlapped \/ \E u \in Threads \ {t} : pc[u] # "idle")
    /\ UNCHANGED <<notTask, workdirs, docker, ckpt, kind, remove, pods, overlays, lock, pc, ret, polls, local_result, prov>>

\* remove_pod: nothing without remove or without a pod name; otherwise the pod is
\* deleted (or every attempt fails and is printed) and, in the finally clause,
\* pod_name and info are cleared.
KubernetesTask_remove_pod(t) ==
    /\ kind = "KubernetesTask" /\ pc[t] = "idle" /\ calls < MaxCalls
    /\ IF remove /\ task.pod_name # NoneId
       THEN /\ \E deleted \in BOOLEAN :
                  pods' = IF deleted THEN [pods EXCEPT ![task.pod_name] = "absent"] ELSE pods
            /\ task' = [task EXCEPT !.pod_name = NoneId, !.info = NoneId]
            /\ hist' = Bump(Bump(hist, "teardowns"), "deletes")
       ELSE UNCHANGED <<pods, task>> /\ hist' = Bump(hist, "teardowns")
    /\ GarbageReturns(t, task', pods')
    /\ calls' = calls + 1
    /\ overlapped' = (overlapped \/ \E u \in Threads \ {t} : pc[u] # "idle")
    /\ UNCHANGED <<notTask, workdirs, docker, ckpt, Config, sifs, overlays, lock, pc, ret, polls, local_result, prov>>

RemoteKubernetesTask_remove_pod(t) ==
    /\ kind = "RemoteKubernetesTask" /\ pc[t] = "idle" /\ calls < MaxCalls
    /\ IF remove /\ task.pod_name # NoneId
       THEN /\ \E deleted \in BOOLEAN :
                  pods' = IF deleted THEN [pods EXCEPT ![task.pod_name] = "absent"] ELSE pods
            /\ task' = [task EXCEPT !.pod_name = NoneId, !.info = NoneId]
            /\ hist' = Bump(Bump(hist, "teardowns"), "deletes")
       ELSE UNCHANGED <<pods, task>> /\ hist' = Bump(hist, "teardowns")
    /\ GarbageReturns(t, task', pods')
    /\ calls' = calls + 1
    /\ overlapped' = (overlapped \/ \E u \in Threads \ {t} : pc[u] # "idle")
    /\ UNCHANGED <<notTask, workdirs, docker, ckpt, Config, sifs, overlays, lock, pc, ret, polls, local_result, prov>>

\* ------------------------------------------------------------- DockerTask
\* How an atomic public call ends.
CallEnds(t, op, status, after) ==
    /\ outcome' = [outcome EXCEPT ![t] =
          [op |-> op, status |-> status, after |-> after, value |-> NoneResult]]
    /\ calls' = calls + 1
    /\ overlapped' = (overlapped \/ \E u \in Threads \ {t} : pc[u] # "idle")

DockerState(d) ==
    IF d.container = NoneId THEN "absent" ELSE d.containers[d.container]

notDocker == <<notTask, workdirs, ckpt, Config, World, task, lock, pc, ret, polls,
               local_result, prov>>

\* pre_process_command: with no container yet, create_container pulls the image
\* (a pull error is logged) and runs a container, or raises; with a container,
\* get_running_container looks up self.container_id, which the constructor left
\* None, and the lookup raises.
DockerTask_pre_process_command(t) ==
    /\ kind = "DockerTask" /\ pc[t] = "idle" /\ calls < MaxCalls
    /\ IF docker.container = NoneId
       THEN \E started \in BOOLEAN :
               IF started /\ docker.runs < MaxIds
               THEN /\ docker' = [docker EXCEPT !.container = docker.runs + 1,
                                                !.containers[docker.runs + 1] = "running",
                                                !.runs = @ + 1]
                    /\ CallEnds(t, "pre_process_command", "returned", "running")
               ELSE /\ UNCHANGED docker
                    /\ CallEnds(t, "pre_process_command", "raised", DockerState(docker))
       ELSE /\ UNCHANGED docker
            /\ CallEnds(t, "pre_process_command", "raised", DockerState(docker))
    /\ UNCHANGED hist
    /\ UNCHANGED notDocker

\* on_garbage: remove_container stops self.container and, with remove set,
\* removes it.  With no container self.container is None and the call raises;
\* stopping a container the daemon no longer has raises NotFound.
DockerTask_remove_container(t) ==
    /\ kind = "DockerTask" /\ pc[t] = "idle" /\ calls < MaxCalls
    /\ IF docker.container = NoneId
       THEN /\ UNCHANGED docker
            /\ CallEnds(t, "on_garbage", "raised", "absent")
       ELSE IF docker.containers[docker.container] = "removed"
       THEN /\ docker' = [docker EXCEPT !.stops = @ + 1]
            /\ CallEnds(t, "on_garbage", "raised", "removed")
       ELSE /\ docker' = [docker EXCEPT
                  !.stops = @ + 1,
                  !.removes = @ + (IF remove THEN 1 ELSE 0),
                  !.containers[docker.container] = IF remove THEN "removed" ELSE "exited"]
            /\ CallEnds(t, "on_garbage", "returned", DockerState(docker'))
    /\ hist' = Bump(hist, "teardowns")
    /\ UNCHANGED notDocker

\* ------------------------------------------------------------- Checkpoint
\* working_dir is counted in "-checkpoint" suffixes after the scratch directory's name.
notCheckpoint == <<notTask, workdirs, docker, Config, World, task, lock, pc, ret, polls,
                   local_result, prov>>

\* on_execute: the script is written to and run in the working directory, which
\* the engine has created.
Checkpoint_on_execute(t) ==
    /\ kind = "Checkpoint" /\ pc[t] = "idle" /\ calls < MaxCalls
    /\ ckpt' = [ckpt EXCEPT !.dirs = @ \cup {ckpt.working_dir}]
    /\ CallEnds(t, "on_execute", "returned", "ready")
    /\ UNCHANGED hist
    /\ UNCHANGED notCheckpoint

\* on_garbage: shutil.move(working_dir, working_dir + "-checkpoint"), which raises
\* when working_dir does not exist; then working_dir takes the new name, the
\* workflow's checkpoints record it and the JSON file is written.
Checkpoint_on_garbage(t) ==
    /\ kind = "Checkpoint" /\ pc[t] = "idle" /\ calls < MaxCalls
    /\ IF ckpt.working_dir \in ckpt.dirs
       THEN /\ ckpt' = [ckpt EXCEPT
                  !.dirs = (@ \ {ckpt.working_dir}) \cup {ckpt.working_dir + 1},
                  !.working_dir = @ + 1,
                  !.recorded = << ckpt.working_dir + 1 >>,
                  !.written = @ + 1]
            /\ CallEnds(t, "on_garbage", "returned", "renamed")
       ELSE /\ UNCHANGED ckpt
            /\ CallEnds(t, "on_garbage", "raised", "absent")
    /\ hist' = Bump(hist, "teardowns")
    /\ UNCHANGED notCheckpoint

\* ------------------------------------------------------------- the engine's calls
\* A thread of the engine calls on_execute on the task.
Call_on_execute(t) ==
    /\ kind \in SandboxKinds
    /\ pc[t] = "idle" /\ calls < MaxCalls
    /\ Goto(t, "oe_guard")
    /\ outcome' = [outcome EXCEPT ![t] = NoOutcome]
    /\ calls' = calls + 1
    /\ overlapped' = (overlapped \/ \E u \in Threads \ {t} : pc[u] # "idle")
    /\ UNCHANGED <<notTask, workdirs, docker, ckpt, Config, World, task, lock, ret, polls, local_result, hist, prov>>

\* A thread resolving a reference to this task calls create_container / create_pod
\* on it (stage_in and pre_process_command of the dependent task).
Call_create(t) ==
    /\ kind \in SandboxKinds
    /\ pc[t] = "idle" /\ calls < MaxCalls
    /\ Goto(t, IF IsApptainer THEN "cc_check" ELSE "cp_check")
    /\ outcome' = [outcome EXCEPT ![t] = NoOutcome]
    /\ calls' = calls + 1
    /\ overlapped' = (overlapped \/ \E u \in Threads \ {t} : pc[u] # "idle")
    /\ UNCHANGED <<notTask, workdirs, docker, ckpt, Config, World, task, lock, ret, polls, local_result, hist, prov>>

Init == InitTask

Next ==
    \/ \E t \in Threads :
          \/ Call_on_execute(t)
          \/ Call_create(t)
          \/ ApptainerTask_create_container_check(t)
          \/ ApptainerTask_create_container_lock(t)
          \/ ApptainerTask_create_container_locked(t)
          \/ ApptainerTask_create_container_id(t)
          \/ ApptainerTask_prepare_sif_image(t)
          \/ ApptainerTask_prepare_sif_image_sudo(t)
          \/ ApptainerTask_create_overlay(t)
          \/ ApptainerTask_create_container_info(t)
          \/ RemoteApptainerTask_create_container_check(t)
          \/ RemoteApptainerTask_create_container_lock(t)
          \/ RemoteApptainerTask_create_container_locked(t)
          \/ RemoteApptainerTask_create_container_id(t)
          \/ RemoteApptainerTask_prepare_sif_image(t)
          \/ KubernetesTask_create_pod_check(t)
          \/ KubernetesTask_create_pod_name(t)
          \/ KubernetesTask_create_pod_create(t)
          \/ KubernetesTask_create_pod_poll(t)
          \/ KubernetesTask_create_pod_sleep(t)
          \/ RemoteKubernetesTask_create_pod_check(t)
          \/ RemoteKubernetesTask_create_pod_lock(t)
          \/ RemoteKubernetesTask_create_pod_locked(t)
          \/ RemoteKubernetesTask_create_pod_name(t)
          \/ RemoteKubernetesTask_create_pod_apply(t)
          \/ RemoteKubernetesTask_create_pod_poll(t)
          \/ on_execute_guard(t)
          \/ on_execute_create(t)
          \/ pre_process_command(t)
          \/ ApptainerTask_exec_in_container(t)
          \/ KubernetesTask_exec_in_pod(t)
          \/ RemoteKubernetesTask_exec_in_pod(t)
          \/ RemoteApptainerTask_execute_command(t)
          \/ on_execute_mark(t)
          \/ on_execute_store(t)
          \/ ApptainerTask_cleanup_container(t)
          \/ RemoteApptainerTask_cleanup_container(t)
          \/ KubernetesTask_remove_pod(t)
          \/ RemoteKubernetesTask_remove_pod(t)
          \/ DockerTask_pre_process_command(t)
          \/ DockerTask_remove_container(t)
          \/ Checkpoint_on_execute(t)
          \/ Checkpoint_on_garbage(t)
    \/ \E p \in Ids : PodProgress(p)

Spec == Init /\ [][Next]_vars

\* ------------------------------------------------- create_pod on its own
\* A KubernetesTask or RemoteKubernetesTask whose create_pod is called by the
\* threads that resolve references to it; every such thread keeps running.
InitPods ==
    /\ kind \in KubernetesKinds
    /\ image = "docker"
    /\ remove \in BOOLEAN
    /\ InitFields
    /\ InitData

CreatePodStep(t) ==
    \/ KubernetesTask_create_pod_check(t)
    \/ KubernetesTask_create_pod_name(t)
    \/ KubernetesTask_create_pod_create(t)
    \/ KubernetesTask_create_pod_poll(t)
    \/ KubernetesTask_create_pod_sleep(t)
    \/ RemoteKubernetesTask_create_pod_check(t)
    \/ RemoteKubernetesTask_create_pod_lock(t)
    \/ RemoteKubernetesTask_create_pod_locked(t)
    \/ RemoteKubernetesTask_create_pod_name(t)
    \/ RemoteKubernetesTask_create_pod_apply(t)
    \/ RemoteKubernetesTask_create_pod_poll(t)

PodNext ==
    \/ \E t \in Threads :
          \/ Call_create(t)
          \/ CreatePodStep(t)
          \/ KubernetesTask_remove_pod(t)
          \/ RemoteKubernetesTask_remove_pod(t)
    \/ \E p \in Ids : PodProgress(p)

PodSpec ==
    /\ InitPods /\ [][PodNext]_vars
    /\ \A t \in Threads : WF_vars(CreatePodStep(t))

\* ------------------------------------------------------------- NomadTask
\* timeout=3600 of _wait_for_completion, in the model's time unit.
WaitTimeout == 6
\* check_interval = 2
CheckInterval == 2
\* How much longer than check_interval one round may take (the requests' own time).
MaxLatency == 1
\* Public calls on the Nomad task.
MaxNomadCalls == 4

\* _generate_job_spec and _submit_job: nothing when job_submitted; otherwise a new
\* job_id is generated and the job is posted.  The post is accepted, refused, or
\* accepted by the server while the client sees a request error (timeout=30);
\* job_submitted is set only when the client saw success, else the call raises.
NomadTask_submit_job ==
    /\ kind = "NomadTask" /\ n_pc = "idle" /\ n_hist.calls < MaxNomadCalls
    /\ IF job_submitted
       THEN UNCHANGED <<job_id, job_submitted, nomad_jobs>>
            /\ n_hist' = Bump(n_hist, "calls")
       ELSE /\ n_hist.ids < MaxIds
            /\ job_id' = n_hist.ids + 1
            /\ \E registered \in BOOLEAN, answered \in BOOLEAN :
                  /\ answered => registered
                  /\ nomad_jobs' = IF registered
                                   THEN [nomad_jobs EXCEPT ![job_id'] = "pending"]
                                   ELSE nomad_jobs
                  /\ job_submitted' = answered
                  /\ n_hist' = [n_hist EXCEPT !.ids = @ + 1, !.posts = @ + 1, !.calls = @ + 1,
                                              !.accepted = @ + (IF registered THEN 1 ELSE 0)]
    /\ UNCHANGED <<notNomad, allocation_id, n_pc, waited, n_result>>

\* on_execute up to the call of _wait_for_completion: start_time = time.time().
NomadTask_on_execute ==
    /\ kind = "NomadTask" /\ n_pc = "idle" /\ n_hist.calls < MaxNomadCalls
    /\ n_pc' = "waiting"
    /\ waited' = 0
    /\ n_result' = NoneResult
    /\ n_hist' = [n_hist EXCEPT !.calls = @ + 1, !.saw_dead = FALSE, !.seen = << >>]
    /\ UNCHANGED <<notNomad, job_id, job_submitted, allocation_id, nomad_jobs>>

\* The loop condition `time.time() - start_time < timeout`.
StillWaiting(w) == w < WaitTimeout

\* A wait that takes start_time afresh in every round.
AfterSleepRestarted(w, d) == 0
\* time.sleep(check_interval) at the end of a round: d is what the round took.
AfterSleep(w, d) == w + d

\* last_event.get('ExitCode', 1)
ExitCodeOf(alloc) == IF alloc.has_exit_code THEN alloc.exit_code ELSE 1

\* A wait that takes every 'Terminated' event for a success.
CompletionResultIgnoringExitCode(alloc) ==
    IF /\ alloc.has_alloc /\ alloc.has_task_state /\ alloc.state = "dead"
       /\ alloc.has_events /\ alloc.last_event = "Terminated"
    THEN Result("Job completed", 0)
    ELSE Result("Job died", 1)

\* What _wait_for_completion returns for a dead job, from the first allocation.
CompletionResult(alloc) ==
    IF /\ alloc.has_alloc /\ alloc.has_task_state /\ alloc.state = "dead"
       /\ alloc.has_events /\ alloc.last_event = "Terminated"
    THEN IF ExitCodeOf(alloc) = 0
         THEN Result("Job completed", 0)
         ELSE Result("Job failed", ExitCodeOf(alloc))
    ELSE Result("Job died", 1)

\* What the allocations request may answer: no allocation, or a first allocation
\* with or without a state for the task, events, and an ExitCode in the last one.
Allocations ==
    [has_alloc : BOOLEAN, has_task_state : BOOLEAN, state : {"dead", "running"},
     has_events : BOOLEAN, last_event : {"Terminated", "Killing"},
     has_exit_code : BOOLEAN, exit_code : {0, 1, 137}]

\* One round of the loop of _wait_for_completion, or the return after it.
\* A request may fail with a RequestException (always so for a job the server
\* does not know); that, and any status but 'dead', sleeps and goes round again.
NomadTask_wait_for_completion ==
    /\ kind = "NomadTask" /\ n_pc = "waiting"
    /\ IF StillWaiting(waited)
       THEN LET status == IF job_id = NoneId THEN "absent" ELSE nomad_jobs[job_id] IN
            \E answered \in BOOLEAN, allocs_answered \in BOOLEAN,
               d \in CheckInterval .. CheckInterval + MaxLatency :
               IF answered /\ status = "dead"
               THEN IF allocs_answered
                       THEN \E alloc \in Allocations :
                               /\ n_hist' = [n_hist EXCEPT !.saw_dead = TRUE,
                                                           !.seen = << alloc >>]
                               /\ n_result' = CompletionResult(alloc)
                               /\ allocation_id' = IF alloc.has_alloc THEN job_id
                                                   ELSE allocation_id
                               /\ n_pc' = "returned"
                               /\ UNCHANGED waited
                       ELSE /\ n_hist' = [n_hist EXCEPT !.saw_dead = TRUE]
                            /\ waited' = AfterSleep(waited, d)
                            /\ UNCHANGED <<n_result, allocation_id, n_pc>>
               ELSE /\ waited' = AfterSleep(waited, d)
                    /\ UNCHANGED <<n_result, allocation_id, n_pc, n_hist>>
       ELSE /\ n_result' = Result("Timeout", 1)
            /\ n_pc' = "returned"
            /\ UNCHANGED <<waited, allocation_id, n_hist>>
    /\ UNCHANGED <<notNomad, job_id, job_submitted, nomad_jobs>>

\* on_execute after the wait: with code 0 the output becomes the logs; return.
NomadTask_on_execute_return ==
    /\ kind = "NomadTask" /\ n_pc = "returned"
    /\ n_result' = IF n_result[1].code = 0 THEN Result("logs", 0) ELSE n_result
    /\ n_pc' = "idle"
    /\ n_hist' = [n_hist EXCEPT !.seen = << >>]
    /\ UNCHANGED <<notNomad, job_id, job_submitted, allocation_id, waited, nomad_jobs>>

\* on_garbage: _cleanup_job purges the job named by job_id; a failure is logged.
NomadTask_cleanup_job ==
    /\ kind = "NomadTask" /\ n_pc = "idle" /\ n_hist.calls < MaxNomadCalls
    /\ IF job_id = NoneId
       THEN UNCHANGED nomad_jobs /\ n_hist' = Bump(n_hist, "calls")
       ELSE /\ \E purged \in BOOLEAN :
                  nomad_jobs' = IF purged THEN [nomad_jobs EXCEPT ![job_id] = "absent"]
                                ELSE nomad_jobs
            /\ n_hist' = Bump(Bump(n_hist, "purges"), "calls")
    /\ UNCHANGED <<notNomad, job_id, job_submitted, allocation_id, n_pc, waited, n_result>>

\* The Nomad server runs a registered job: pending, running, dead.
NomadJobProgress(j) ==
    /\ kind = "NomadTask"
    /\ nomad_jobs[j] \in {"pending", "running"}
    /\ nomad_jobs' = [nomad_jobs EXCEPT ![j] = IF @ = "pending" THEN "running" ELSE "dead"]
    /\ UNCHANGED <<notNomad, job_id, job_submitted, allocation_id, n_pc, waited, n_result, n_hist>>

NomadNext ==
    \/ NomadTask_submit_job
    \/ NomadTask_on_execute
    \/ NomadTask_wait_for_completion
    \/ NomadTask_on_execute_return
    \/ NomadTask_cleanup_job
    \/ \E j \in Ids : NomadJobProgress(j)

\* The thread inside on_execute keeps running: the interpreter schedules it.
NomadSpec ==
    /\ InitNomad /\ [][NomadNext]_vars
    /\ WF_vars(NomadTask_wait_for_completion)
    /\ WF_vars(NomadTask_on_execute_return)

\* ------------------------------------------------------------- properties
LockGuardedKinds == {"ApptainerTask", "RemoteApptainerTask", "RemoteKubernetesTask"}

Returned(t, op) == outcome[t].op = op /\ outcome[t].status = "returned"
Raised(t, op) == outcome[t].op = op /\ outcome[t].status = "raised"

\* C1: in a sequential series of on_execute calls on one task the user command is
\* dispatched to the backend at most once, and the calls that return yield the
\* same result.
C1_SequentialDispatchAtMostOnce ==
    ~overlapped =>
        /\ hist.dispatched <= 1
        /\ \A t, u \in Threads :
              Returned(t, "on_execute") /\ Returned(u, "on_execute")
                 => outcome[t].value = outcome[u].value

\* C2: two threads calling on_execute on the same task make the user command run at
\* most once, and both obtain the same result.
C2_ConcurrentDispatchAtMostOnce ==
    (calls = 2 /\ \A t \in Threads : Returned(t, "on_execute")) =>
        /\ hist.dispatched <= 1
        /\ \A t, u \in Threads : outcome[t].value = outcome[u].value

\* C3: for the lock-guarded classes, first-time create calls on one task, however
\* they interleave, generate the identity once, prepare the image once and create
\* the overlay / pod once; once any call has ended the identity has been generated.
C3_LockedProvisioningOnce ==
    (kind \in LockGuardedKinds /\ hist.teardowns = 0) =>
        /\ hist.ids <= 1
        /\ hist.builds - hist.sudo_builds <= 1
        /\ hist.overlay_creates <= 1
        /\ hist.pod_creates <= 1
        /\ \A t \in Threads : outcome[t].status # "none" => hist.ids = 1

\* Both threads called create_container at overlapping times and both returned.
C3_Witness ==
    /\ kind = "ApptainerTask" /\ hist.teardowns = 0
    /\ hist.ids = 1 /\ task.info # NoneId
    /\ \E u \in Threads : pc[u] = "cc_locked" /\ lock = u

\* C4: for the local KubernetesTask, first-time create_pod calls on one task call
\* create_namespaced_pod once and assign pod_name once.
C4_LocalPodCreatedOnce ==
    (kind = "KubernetesTask" /\ hist.teardowns = 0) =>
        hist.pod_creates <= 1 /\ hist.ids <= 1

\* C5: whenever create_container / create_pod returns normally the sandbox is fully
\* provisioned, and no exec is issued against a sandbox that is not.
C5_ReturnsOnlyWhenProvisioned ==
    hist.teardowns = 0 =>
        /\ \A t \in Threads : Returned(t, "create") => outcome[t].after = "ready"
        /\ hist.unready_exec = 0

\* C6: a create_container / create_pod call that fails leaves the task absent:
\* identity, directories, image and info are all None.
C6_FailureLeavesAbsent ==
    \A t \in Threads : Raised(t, "create") => outcome[t].after = "absent"

\* C7 as stated: the sudo build is attempted only after a permission failure of the
\* first build.
C7_RetryOnlyOnPermissionError ==
    kind = "ApptainerTask" =>
        /\ prov.builds <= 2
        /\ prov.sudo_build # "none" => prov.first_build = "permission_denied"

\* C7 amended: in one ApptainerTask provisioning the build command is issued at most
\* twice; the sudo build is attempted exactly when the first build ended with a
\* non-zero exit (for whatever reason), never after a timeout; when the sudo build
\* fails, or the overlay creation fails, provisioning stops there.
C7_RetryOnceOnNonZeroExit ==
    kind = "ApptainerTask" =>
        /\ prov.builds <= 2
        /\ prov.sudo_build # "none" => prov.first_build \in {"permission_denied", "other_error"}
        /\ (prov.first_build \in {"permission_denied", "other_error"} /\ prov.sudo_build = "none")
              => \E t \in Threads : pc[t] = "cc_sudo"
        /\ prov.first_build = "TimeoutExpired" => prov.builds = 1
        /\ prov.first_build \in {"ok", "TimeoutExpired"} => \A t \in Threads : pc[t] # "cc_sudo"
        /\ prov.sudo_build \notin {"none", "ok"} =>
              prov.overlay = "none" /\ \A t \in Threads : pc[t] \notin {"cc_sudo", "cc_overlay", "cc_info"}
        /\ prov.overlay \notin {"none", "ok"} =>
              \A t \in Threads : pc[t] \notin {"cc_sudo", "cc_overlay", "cc_info"}

\* The first build failed for a reason other than permissions, the sudo build
\* succeeded and provisioning completed.
C7_Witness ==
    /\ kind = "ApptainerTask"
    /\ prov.first_build = "other_error" /\ prov.sudo_build = "ok" /\ prov.builds = 2
    /\ task.info # NoneId

\* C8: a memoized result with code 0 comes from a run of the user command that
\* succeeded.
C8_CodeZeroOnlyOnSuccess ==
    (task.execution_result # NoneResult /\ task.execution_result[1].code = 0)
        => task.execution_result[1].output = "output_of_success"

\* C9: _wait_for_completion always returns; when the wait never saw the job
\* dead (it stayed pending or running, or every status request failed) the
\* result has code 1; and no job is posted while the wait is in progress.
C9_WaitAlwaysReturns ==
    /\ (n_pc = "waiting") ~> (n_pc = "returned")
    /\ [](n_pc = "returned" /\ ~n_hist.saw_dead => n_result[1].code = 1)
    /\ [][n_pc = "waiting" => n_hist'.posts = n_hist.posts /\ job_id' = job_id]_vars

\* The wait ran out on a submitted job that the server still had not finished.
C9_Witness ==
    /\ n_pc = "returned" /\ ~n_hist.saw_dead
    /\ job_submitted /\ nomad_jobs[job_id] \in {"pending", "running"}
    /\ waited >= WaitTimeout
    /\ n_result = Result("Timeout", 1)

\* C10: every call of create_pod ends, by returning or by raising.
C10_CreatePodTerminates ==
    \A t \in Threads : (pc[t] # "idle") ~> (pc[t] = "idle")

\* ------------------------------------------------------------- reference resolution
\* A command is a sequence of atoms: "W" is the text `workflow:///`, "T" the text
\* `/tmp/`, " " a blank, the others single characters.  Task A is in the
\* workflow's task list, task Z is not.
MaxTokens == 2
WorkflowTasks == {<<"A">>}
TaskNames == {<<"A">>, <<"Z">>}
Paths == {<<"f">>, <<"f", "f">>, <<"f", "/", "f">>, <<"/", "f">>}
ReferenceKinds == {"ApptainerTask", "KubernetesTask", "RemoteKubernetesTask"}

\* workflow_url = f"workflow:///{task_name}/{file_path}"
workflow_url(task_name, file_path) == <<"W">> \o task_name \o <<"/">> \o file_path

Tokens == {<<"x">>} \cup {workflow_url(n, q) : n \in TaskNames, q \in Paths}

RECURSIVE Join(_)
Join(toks) ==
    IF Len(toks) = 0 THEN << >>
    ELSE IF Len(toks) = 1 THEN toks[1]
    ELSE toks[1] \o <<" ">> \o Join(Tail(toks))

TokenLists == UNION {[1 .. n -> Tokens] : n \in 1 .. MaxTokens}

\* s has u at position i.
MatchesAt(s, i, u) ==
    /\ i + Len(u) - 1 <= Len(s)
    /\ \A k \in 1 .. Len(u) : s[i + k - 1] = u[k]

\* str.replace(old, new): every non-overlapping occurrence, left to right.
RECURSIVE ReplaceFrom(_, _, _, _)
ReplaceFrom(s, old, new, i) ==
    IF i > Len(s) THEN << >>
    ELSE IF MatchesAt(s, i, old) THEN new \o ReplaceFrom(s, old, new, i + Len(old))
    ELSE <<s[i]>> \o ReplaceFrom(s, old, new, i + 1)

Replace(s, old, new) == ReplaceFrom(s, old, new, 1)

Contains(s, u) == \E i \in 1 .. Len(s) : MatchesAt(s, i, u)

\* The longest run from position i of atoms that are not in `stop`.
RECURSIVE RunEnd(_, _, _)
RunEnd(s, i, stop) ==
    IF i > Len(s) \/ s[i] \in stop THEN i - 1 ELSE RunEnd(s, i + 1, stop)

\* re.findall(r'workflow:///([^/\s]+)/([^\s]+)', command): the (task_name,
\* file_path) pairs of the non-overlapping matches, left to right.
RECURSIVE FindAllFrom(_, _)
FindAllFrom(s, i) ==
    IF i > Len(s) THEN << >>
    ELSE IF s[i] # "W" THEN FindAllFrom(s, i + 1)
    ELSE LET n == RunEnd(s, i + 1, {"/", " ", "W", "T"})
             q == RunEnd(s, n + 2, {" "})
         IN  IF n >= i + 1 /\ n + 1 <= Len(s) /\ s[n + 1] = "/" /\ q >= n + 2
             THEN << <<SubSeq(s, i + 1, n), SubSeq(s, n + 2, q)>> >> \o FindAllFrom(s, q + 1)
             ELSE FindAllFrom(s, i + 1)

\* The distinct pairs of a list of matches, each at its first occurrence.
RECURSIVE Distinct(_)
Distinct(refs) ==
    IF refs = << >> THEN << >>
    ELSE LET front == Distinct(SubSeq(refs, 1, Len(refs) - 1))
             last == refs[Len(refs)]
         IN  IF \E k \in 1 .. Len(front) : front[k] = last THEN front
             ELSE Append(front, last)

\* A resolution that stages each distinct reference once.
workflow_refs_deduplicated(command) ==
    IF Contains(command, <<"W">>) THEN Distinct(FindAllFrom(command, 1)) ELSE << >>

workflow_refs(command) == IF Contains(command, <<"W">>) THEN FindAllFrom(command, 1) ELSE << >>

\* file_path.replace('/', '_')
Underscored(file_path) == [k \in 1 .. Len(file_path) |-> IF file_path[k] = "/" THEN "_" ELSE file_path[k]]

\* local_path: f"/tmp/{task_name}_{file_path.replace('/', '_')}" for ApptainerTask
\* and KubernetesTask, file_path itself for RemoteKubernetesTask.
local_path(k, task_name, file_path) ==
    IF k = "RemoteKubernetesTask" THEN file_path
    ELSE <<"T">> \o task_name \o <<"_">> \o Underscored(file_path)

\* on_execute of a task whose command is the join of `toks`, at its first statement.
StagingStart(toks) ==
    [pc |-> "on_execute", tokens |-> toks, command |-> Join(toks), refs |-> << >>,
     ref |-> << >>, imported |-> {}, failed |-> FALSE, log |-> << >>,
     staged |-> << >>, dispatched |-> << >>, result |-> NoneResult]

InitStaging ==
    /\ kind \in ReferenceKinds
    /\ image = "docker"
    /\ remove = FALSE
    /\ InitFields
    /\ stg \in {StagingStart(toks) : toks \in TokenLists}
    /\ xfer = NoTransfer /\ fmt = NoFormat /\ InitLater

notStaging == <<taskVars, nomadVars, workdirs, docker, ckpt, xfer, fmt, laterVars>>

\* on_execute up to the findall of pre_process_command (the sandbox is there).
Staging_pre_process_command ==
    /\ stg.pc = "on_execute"
    /\ stg' = [stg EXCEPT !.pc = "refs", !.refs = workflow_refs(stg.command)]
    /\ UNCHANGED notStaging

\* The loop over workflow_refs finds the named task in workflow.tasks and calls
\* stage_in for it (stg.staged lists the calls made).
Staging_ref_found ==
    /\ stg.pc = "refs" /\ stg.refs # << >>
    /\ Head(stg.refs)[1] \in WorkflowTasks
    /\ stg' = [stg EXCEPT !.pc = "export", !.ref = Head(stg.refs), !.refs = Tail(stg.refs),
                           !.staged = Append(@, Head(stg.refs))]
    /\ UNCHANGED notStaging

\* The named task is not in workflow.tasks: `if src_task:` skips the reference
\* (RemoteKubernetesTask prints a warning) and the loop goes on.
Staging_ref_task_missing ==
    /\ stg.pc = "refs" /\ stg.refs # << >>
    /\ Head(stg.refs)[1] \notin WorkflowTasks
    /\ stg' = [stg EXCEPT !.refs = Tail(stg.refs)]
    /\ UNCHANGED notStaging

\* What pre_process_command does with an exception of stage_in: ApptainerTask
\* prints it and goes on with the next reference, the Kubernetes classes re-raise.
StageInRaises(st) ==
    IF kind = "ApptainerTask"
    THEN [st EXCEPT !.pc = "refs", !.ref = << >>, !.failed = TRUE]
    ELSE [st EXCEPT !.pc = "raised", !.ref = << >>, !.failed = TRUE]

\* stage_in, first half: the source sandbox exports the file (ApptainerTask:
\* `cp` into staging, checked; Kubernetes: `cat` in the source pod).  With the
\* source file missing ApptainerTask and RemoteKubernetesTask raise, while
\* KubernetesTask gets cat's error text as the content and goes on.
Staging_stage_in_export ==
    /\ stg.pc = "export"
    /\ \E present \in BOOLEAN, answered \in BOOLEAN :
          stg' = IF ~answered THEN StageInRaises(stg)
                 ELSE IF present
                 THEN [stg EXCEPT !.pc = "import", !.log = Append(@, "export")]
                 ELSE IF kind = "KubernetesTask"
                 THEN [stg EXCEPT !.pc = "import", !.failed = TRUE]
                 ELSE StageInRaises(stg)
    /\ UNCHANGED notStaging

\* stage_in, second half: the file is written into this task's sandbox; then
\* pre_process_command replaces workflow_url by local_path in the command.
Staging_stage_in_import ==
    /\ stg.pc = "import"
    /\ \E written \in BOOLEAN :
          stg' = IF written
                 THEN [stg EXCEPT
                         !.pc = "refs", !.ref = << >>,
                         !.imported = @ \cup {stg.ref},
                         !.log = Append(@, "import"),
                         !.command = Replace(@, workflow_url(stg.ref[1], stg.ref[2]),
                                             local_path(kind, stg.ref[1], stg.ref[2]))]
                 ELSE StageInRaises(stg)
    /\ UNCHANGED notStaging

\* pre_process_command returns the command; on_execute goes on to dispatch it.
Staging_pre_process_command_return ==
    /\ stg.pc = "refs" /\ stg.refs = << >>
    /\ stg' = [stg EXCEPT !.pc = "exec"]
    /\ UNCHANGED notStaging

\* on_execute dispatches the processed command and records the result:
\* ApptainerTask and KubernetesTask always with code 0, RemoteKubernetesTask
\* raising on a non-zero exit.
Staging_exec ==
    /\ stg.pc = "exec"
    /\ \E o \in {"exit0", "exitNonZero"} :
          stg' = IF kind = "RemoteKubernetesTask" /\ o = "exitNonZero"
                 THEN [stg EXCEPT !.pc = "raised", !.log = Append(@, "dispatch"),
                                  !.dispatched = << stg.command >>]
                 ELSE [stg EXCEPT !.pc = "returned", !.log = Append(@, "dispatch"),
                                  !.dispatched = << stg.command >>,
                                  !.result = Result(OutputOf(o), 0)]
    /\ UNCHANGED notStaging

StagingNext ==
    \/ Staging_pre_process_command
    \/ Staging_ref_found
    \/ Staging_ref_task_missing
    \/ Staging_stage_in_export
    \/ Staging_stage_in_import
    \/ Staging_pre_process_command_return
    \/ Staging_exec

StagingSpec == InitStaging /\ [][StagingNext]_vars

\* pre_process_command has returned normally.
PreProcessReturned == stg.pc \in {"exec", "returned"} \/ stg.dispatched # << >>

\* The references of the original command, as sets.
OriginalRefs ==
    {<< <<stg.tokens[k][2]>>, SubSeq(stg.tokens[k], 4, Len(stg.tokens[k])) >> :
        k \in {j \in 1 .. Len(stg.tokens) : stg.tokens[j][1] = "W"}}

\* The command with every reference token replaced by its own destination path.
ResolvedCommand ==
    Join([k \in 1 .. Len(stg.tokens) |->
            IF stg.tokens[k][1] = "W"
            THEN local_path(kind, <<stg.tokens[k][2]>>,
                            SubSeq(stg.tokens[k], 4, Len(stg.tokens[k])))
            ELSE stg.tokens[k]])

\* C11: once the export or the import of a reference has failed the command is
\* not dispatched and no result is recorded.
C11_StagingFailurePropagates ==
    stg.pc # "none" /\ stg.failed => stg.dispatched = << >> /\ stg.result = NoneResult

\* C12: pre_process_command does not return normally for a command that names
\* a task outside the workflow, and what it returns holds no reference to one.
C12_MissingTaskIsFatal ==
    stg.pc # "none" /\ PreProcessReturned =>
        /\ \A r \in OriginalRefs : r[1] \in WorkflowTasks
        /\ \A n \in TaskNames \ WorkflowTasks : ~Contains(stg.command, <<"W">> \o n)

\* C13: when the command is dispatched every reference of the command has been
\* exported and imported, and no export or import comes after the dispatch.
C13_StagingBeforeDispatch ==
    stg.pc # "none" /\ stg.dispatched # << >> =>
        /\ \A r \in OriginalRefs : r \in stg.imported
        /\ \A i, j \in 1 .. Len(stg.log) :
              stg.log[i] = "dispatch" /\ j > i => stg.log[j] \notin {"export", "import"}

\* C14: when pre_process_command returns normally and every referenced task
\* exists, the command is the original with each reference replaced by its
\* destination path, with no workflow:/// left.
C14_EveryReferenceRewritten ==
    (stg.pc # "none" /\ PreProcessReturned /\ \A r \in OriginalRefs : r[1] \in WorkflowTasks) =>
        /\ stg.command = ResolvedCommand
        /\ ~Contains(stg.command, <<"W">>)

\* ------------------------------------------------------------- stage_in
\* File contents are sequences of atoms: "a" an ordinary character, "sq" a single
\* quote, "dq" a double quote, "nl" a newline, "EOF" the three letters EOF.
MaxLen == 3
ContentAtoms == {"a", "sq", "nl", "EOF"}
Contents == UNION {[1 .. n -> ContentAtoms] : n \in 0 .. MaxLen}

Hosts == {"local", "remote"}
HostOf(k) == IF k \in {"RemoteApptainerTask", "RemoteKubernetesTask"} THEN "remote" ELSE "local"
FamilyOf(k) == IF k \in ApptainerKinds THEN ApptainerKinds ELSE KubernetesKinds

\* Files of the Apptainer hosts: P the source path, staging the exported file,
\* our_staging the copy in the destination's staging directory, D the destination.
Slots == {"P", "staging", "our_staging", "D"}
NoFile == << >>
File(c) == << c >>

\* content.replace("'", "'\"'\"'")
EscapeQuotes(c) == Replace(c, <<"sq">>, <<"sq", "dq", "sq", "dq", "sq">>)

\* What bash writes for `cat > D << 'EOF'`, a newline, text: the lines of text up
\* to the first line that is EOF, each with its newline; nothing is expanded.
RECURSIVE HeredocFrom(_, _, _)
HeredocFrom(text, i, line) ==
    IF i > Len(text) THEN (IF line = <<"EOF">> THEN << >> ELSE line)
    ELSE IF text[i] = "nl"
    THEN (IF line = <<"EOF">> THEN << >> ELSE line \o <<"nl">> \o HeredocFrom(text, i + 1, << >>))
    ELSE HeredocFrom(text, i + 1, Append(line, text[i]))

Heredoc(text) == HeredocFrom(text, 1, << >>)

\* RemoteKubernetesTask.exec_in_pod puts the command in single quotes for the
\* remote shell, each quote of the command written as '"'"'.
ShellQuote(c) == <<"sq">> \o EscapeQuotes(c) \o <<"sq">>

\* The word the remote shell makes of a quoted string: quote characters switch
\* the quoting and are dropped, everything else is kept.
RECURSIVE ShellWordFrom(_, _, _)
ShellWordFrom(w, i, quote) ==
    IF i > Len(w) THEN << >>
    ELSE IF quote = "none" /\ w[i] \in {"sq", "dq"} THEN ShellWordFrom(w, i + 1, w[i])
    ELSE IF w[i] = quote THEN ShellWordFrom(w, i + 1, "none")
    ELSE <<w[i]>> \o ShellWordFrom(w, i + 1, quote)

ShellWord(w) == ShellWordFrom(w, 1, "none")

\* The text after the first line of the command stage_in sends to the
\* destination pod, as bash in the pod receives it.
HeredocTextReceived(k, content) ==
    LET text == EscapeQuotes(content) \o <<"nl", "EOF">>
    IN  IF k = "RemoteKubernetesTask" THEN ShellWord(ShellQuote(text)) ELSE text

\* Y.stage_in(X, P, D) at its first statement: Y is of class `kind`, X of class
\* src_kind, and P holds contents b in X's sandbox.
TransferStart(src_kind, b) ==
    [pc |-> "stage_in", src_kind |-> src_kind, contents |-> b, content |-> << >>,
     files |-> [h \in Hosts |-> [f \in Slots |->
                  IF h = HostOf(src_kind) /\ f = "P" THEN File(b) ELSE NoFile]],
     pod_file |-> NoFile]

InitTransfer ==
    /\ kind \in SandboxKinds
    /\ image = "docker"
    /\ remove = FALSE
    /\ InitFields
    /\ xfer \in {TransferStart(k, b) : k \in FamilyOf(kind), b \in Contents}
    /\ stg = NoStaging /\ fmt = NoFormat /\ InitLater

notTransfer == <<taskVars, nomadVars, workdirs, docker, ckpt, stg, fmt, laterVars>>

\* src_task.export_file_to_staging: a copy of P into the source's staging
\* directory, on the source task's host; it raises when P is not there.
Transfer_export_file_to_staging ==
    /\ kind \in ApptainerKinds /\ xfer.pc = "stage_in"
    /\ LET h == HostOf(xfer.src_kind) IN
       xfer' = IF xfer.files[h]["P"] = NoFile THEN [xfer EXCEPT !.pc = "raised"]
               ELSE [xfer EXCEPT !.pc = "exported",
                                 !.files[h]["staging"] = xfer.files[h]["P"]]
    /\ UNCHANGED notTransfer

\* ApptainerTask.stage_in: shutil.copy2(staging_path, our_staging_path) on the
\* local host, which raises when staging_path is not a file there.
ApptainerTask_stage_in_copy ==
    /\ kind = "ApptainerTask" /\ xfer.pc = "exported"
    /\ xfer' = IF xfer.files["local"]["staging"] = NoFile THEN [xfer EXCEPT !.pc = "raised"]
               ELSE [xfer EXCEPT !.pc = "copied",
                                 !.files["local"]["our_staging"] = xfer.files["local"]["staging"]]
    /\ UNCHANGED notTransfer

\* ApptainerTask.import_file_from_staging: `cp /staging/<name> D` in the container.
ApptainerTask_import_file_from_staging ==
    /\ kind = "ApptainerTask" /\ xfer.pc = "copied"
    /\ xfer' = IF xfer.files["local"]["our_staging"] = NoFile THEN [xfer EXCEPT !.pc = "raised"]
               ELSE [xfer EXCEPT !.pc = "returned",
                                 !.files["local"]["D"] = xfer.files["local"]["our_staging"]]
    /\ UNCHANGED notTransfer

\* RemoteApptainerTask.import_file_from_staging: `cp staging_path D` over ssh on
\* this task's host; a non-zero exit raises.
RemoteApptainerTask_import_file_from_staging ==
    /\ kind = "RemoteApptainerTask" /\ xfer.pc = "exported"
    /\ xfer' = IF xfer.files["remote"]["staging"] = NoFile THEN [xfer EXCEPT !.pc = "raised"]
               ELSE [xfer EXCEPT !.pc = "returned",
                                 !.files["remote"]["D"] = xfer.files["remote"]["staging"]]
    /\ UNCHANGED notTransfer

\* Kubernetes stage_in: content = src_task.exec_in_pod(f"cat {src_path}").
Kubernetes_stage_in_read ==
    /\ kind \in KubernetesKinds /\ xfer.pc = "stage_in"
    /\ xfer' = [xfer EXCEPT !.pc = "read", !.content = xfer.contents]
    /\ UNCHANGED notTransfer

\* Kubernetes stage_in: the quotes of content are escaped and the text is
\* written in the destination pod with `cat > D << 'EOF'`.
Kubernetes_stage_in_write ==
    /\ kind \in KubernetesKinds /\ xfer.pc = "read"
    /\ xfer' = [xfer EXCEPT !.pc = "returned",
                            !.pod_file = File(Heredoc(HeredocTextReceived(kind, xfer.content)))]
    /\ UNCHANGED notTransfer

TransferNext ==
    \/ Transfer_export_file_to_staging
    \/ ApptainerTask_stage_in_copy
    \/ ApptainerTask_import_file_from_staging
    \/ RemoteApptainerTask_import_file_from_staging
    \/ Kubernetes_stage_in_read
    \/ Kubernetes_stage_in_write

TransferSpec == InitTransfer /\ [][TransferNext]_vars

\* The file at D in the destination sandbox.
Delivered ==
    IF kind \in ApptainerKinds THEN xfer.files[HostOf(kind)]["D"] ELSE xfer.pod_file

\* C15: after stage_in returns normally the file at D holds exactly the
\* contents of P.
C15_StageInRoundTrip ==
    xfer.pc = "returned" => Delivered = File(xfer.contents)

\* C16: for the Apptainer classes stage_in ends the same way for every
\* placement of source and destination: it returns, and D holds P's contents.
C16_SameOutcomeForAllEndpoints ==
    (kind \in ApptainerKinds /\ xfer.pc \in {"returned", "raised"}) =>
        xfer.pc = "returned" /\ Delivered = File(xfer.contents)

\* ------------------------------------------------------------- result
\* Command output is a sequence of atoms: "a" and "n" ordinary letters, "nl" a
\* newline, "tab" a tab, "bs" a backslash, "dq" a double quote.
MaxOut == 4
OutputAtoms == {"a", "n", "nl", "tab", "bs", "dq"}
Outputs == UNION {[1 .. n -> OutputAtoms] : n \in 0 .. MaxOut}
Whitespace == {"nl", "tab", "sp"}
JsonResultKinds == {"ApptainerTask", "KubernetesTask", "RemoteKubernetesTask"}

\* str.strip(): leading and trailing whitespace removed.
RECURSIVE lstrip(_)
lstrip(s) == IF s # << >> /\ Head(s) \in Whitespace THEN lstrip(Tail(s)) ELSE s

RECURSIVE rstrip(_)
rstrip(s) ==
    IF s # << >> /\ s[Len(s)] \in Whitespace THEN rstrip(SubSeq(s, 1, Len(s) - 1)) ELSE s

strip(s) == rstrip(lstrip(s))

\* The same escaping with the tab replacement left out.
safe_result_newlines_only(result) == Replace(result, <<"nl">>, <<"bs", "n">>)

\* result.replace("\n", "\\n").replace("\t", "\\t")
safe_result(result) ==
    Replace(Replace(result, <<"nl">>, <<"bs", "n">>), <<"tab">>, <<"bs", "t">>)

\* The characters json.dumps writes for one character of a string.
JsonEscape(c) ==
    CASE c = "bs" -> <<"bs", "bs">>
      [] c = "dq" -> <<"bs", "dq">>
      [] c = "nl" -> <<"bs", "n">>
      [] c = "tab" -> <<"bs", "t">>
      [] OTHER -> <<c>>

RECURSIVE JsonEscapeAll(_)
JsonEscapeAll(s) == IF s = << >> THEN << >> ELSE JsonEscape(Head(s)) \o JsonEscapeAll(Tail(s))

JsonPrefix == <<"{", "dq", "result", "dq", ":", "sp", "dq">>

\* json.dumps({"result": s})
json_dumps(s) == JsonPrefix \o JsonEscapeAll(s) \o <<"dq", "}">>

\* The position of the quote that closes the JSON string starting at i, or 0.
RECURSIVE JsonStringEnd(_, _)
JsonStringEnd(d, i) ==
    IF i > Len(d) THEN 0
    ELSE IF d[i] = "dq" THEN i
    ELSE IF d[i] = "bs" THEN JsonStringEnd(d, i + 2)
    ELSE JsonStringEnd(d, i + 1)

JsonUnescape(c) ==
    CASE c = "n" -> "nl"
      [] c = "t" -> "tab"
      [] OTHER -> c

RECURSIVE JsonStringFrom(_, _, _)
JsonStringFrom(d, i, end) ==
    IF i >= end THEN << >>
    ELSE IF d[i] = "bs" THEN <<JsonUnescape(d[i + 1])>> \o JsonStringFrom(d, i + 2, end)
    ELSE <<d[i]>> \o JsonStringFrom(d, i + 1, end)

\* json.loads(d)["result"] as a one-element sequence, or the empty sequence
\* when d is not such a document (a raw control character inside the string,
\* a missing quote or brace).
json_loads(d) ==
    LET end == JsonStringEnd(d, Len(JsonPrefix) + 1) IN
    IF \/ Len(d) < Len(JsonPrefix) + 2
       \/ SubSeq(d, 1, Len(JsonPrefix)) # JsonPrefix
       \/ end # Len(d) - 1
       \/ d[Len(d)] # "}"
       \/ \E i \in Len(JsonPrefix) + 1 .. Len(d) : d[i] \in {"nl", "tab"}
    THEN << >>
    ELSE << JsonStringFrom(d, Len(JsonPrefix) + 1, end) >>

ErrorMessages == {<<"a">>, <<"a", "nl", "a">>}

\* on_execute at the call that runs the command, whose output will be out.
FormatStart(out) ==
    [pc |-> "exec", output |-> out, raised |-> FALSE, result |-> << >>, output_json |-> << >>,
     executed |-> FALSE, code |-> 0]

InitFormat ==
    /\ kind \in JsonResultKinds
    /\ image = "docker"
    /\ remove = FALSE
    /\ InitFields
    /\ fmt \in {FormatStart(out) : out \in Outputs}
    /\ stg = NoStaging /\ xfer = NoTransfer /\ InitLater

notFormat == <<taskVars, nomadVars, workdirs, docker, ckpt, stg, xfer, laterVars>>

\* result = self.exec_in_container(processed_command).strip(), and the same
\* with exec_in_pod.
Format_exec ==
    /\ fmt.pc = "exec"
    /\ fmt' = [fmt EXCEPT !.pc = "result", !.result = strip(fmt.output)]
    /\ UNCHANGED notFormat

\* ApptainerTask.on_execute: exec_in_container raises and the result is the
\* text "Error: <message>".
Format_exec_raises ==
    /\ kind = "ApptainerTask" /\ fmt.pc = "exec"
    /\ \E m \in ErrorMessages :
         fmt' = [fmt EXCEPT !.pc = "result", !.raised = TRUE,
                            !.result = <<"Error", ":", "sp">> \o m]
    /\ UNCHANGED notFormat

\* The rest of on_execute: the result is escaped, wrapped in JSON and stored.
Format_result ==
    /\ fmt.pc = "result"
    /\ fmt' = [fmt EXCEPT !.pc = "done", !.output_json = json_dumps(safe_result(fmt.result)),
                          !.executed = TRUE, !.code = 0]
    /\ UNCHANGED notFormat

FormatNext ==
    \/ Format_exec
    \/ Format_exec_raises
    \/ Format_result

FormatSpec == InitFormat /\ [][FormatNext]_vars

\* The string the claim describes: every newline written as backslash and n,
\* every tab as backslash and t, every other character as it is.
RECURSIVE EscapedCharacterwise(_)
EscapedCharacterwise(s) ==
    IF s = << >> THEN << >>
    ELSE (CASE Head(s) = "nl" -> <<"bs", "n">>
            [] Head(s) = "tab" -> <<"bs", "t">>
            [] OTHER -> <<Head(s)>>) \o EscapedCharacterwise(Tail(s))

Backends == {"ApptainerTask", "KubernetesTask", "NomadTask", "DockerTask", "Checkpoint"}

\* The class each __new__ returns when "ip" is among the keyword arguments.
RemoteClassOf(cls) ==
    CASE cls = "ApptainerTask" -> "RemoteApptainerTask"
      [] cls = "KubernetesTask" -> "RemoteKubernetesTask"
      [] cls = "NomadTask" -> "RemoteNomadTask"
      [] cls = "DockerTask" -> "DockerRemoteTask"
      [] cls = "Checkpoint" -> "RemoteCheckpoint"

RemoteClasses == {RemoteClassOf(c) : c \in Backends}

\* How a call passes ip: not at all, by keyword with an address, by keyword
\* with None, or as a positional argument (only Checkpoint.__init__ has ip among
\* the parameters a caller of the local class can fill by position).
IpForms(cls) ==
    {"absent", "keyword", "keyword_None"} \cup (IF cls = "Checkpoint" THEN {"positional"} ELSE {})

\* cls(name, command, ...) about to run.
ConstructionStart(cls, ip, ssh_username, keypath) ==
    [pc |-> "call", cls |-> cls, ip |-> ip, ssh_username |-> ssh_username,
     keypath |-> keypath, class |-> "None", last |-> "none", methods |-> 0]

InitConstruction ==
    /\ kind = "ApptainerTask"
    /\ image = "docker"
    /\ remove = FALSE
    /\ InitFields
    /\ ctor \in {ConstructionStart(c, ip, u, k) :
                    c \in Backends, ip \in {"absent", "keyword", "keyword_None", "positional"},
                    u \in BOOLEAN, k \in BOOLEAN}
    /\ ctor.ip \in IpForms(ctor.cls)
    /\ stg = NoStaging /\ xfer = NoTransfer /\ fmt = NoFormat
    /\ eq = NoPair /\ cp = NoCheckpoints /\ wf = NoRun /\ InitLast

notConstruction == <<taskVars, nomadVars, workdirs, docker, ckpt, stg, xfer, fmt, eq, cp, wf, lastVars>>

\* __new__: `if "ip" in kwargs` returns an instance of the Remote class, else
\* one of cls.
new(cls, ip) ==
    IF ip \in {"keyword", "keyword_None"} THEN RemoteClassOf(cls) ELSE cls

Construction_new ==
    /\ ctor.pc = "call"
    /\ ctor' = [ctor EXCEPT !.pc = "init", !.class = new(ctor.cls, ctor.ip)]
    /\ UNCHANGED notConstruction

\* __init__ of the class __new__ returned takes the ssh parameters when it is
\* a Remote class or Checkpoint; the other local __init__ have no such
\* parameters and the call ends with a TypeError.
Construction_init ==
    /\ ctor.pc = "init"
    /\ ctor' = IF \/ ctor.class \in RemoteClasses \cup {"Checkpoint"}
                  \/ ~ctor.ssh_username /\ ~ctor.keypath
               THEN [ctor EXCEPT !.pc = "constructed"]
               ELSE [ctor EXCEPT !.pc = "raised", !.class = "None"]
    /\ UNCHANGED notConstruction

\* The engine calls a method of the constructed task; none assigns the class.
Construction_method(op) ==
    /\ ctor.pc = "constructed" /\ ctor.methods < MaxCalls
    /\ ctor' = [ctor EXCEPT !.last = op, !.methods = @ + 1]
    /\ UNCHANGED notConstruction

ConstructionNext ==
    \/ Construction_new
    \/ Construction_init
    \/ \E op \in {"on_execute", "on_garbage"} : Construction_method(op)

ConstructionSpec == InitConstruction /\ [][ConstructionNext]_vars

\* The call gave an address to connect to.
HasRemoteParameters == ctor.ip \in {"keyword", "positional"}

\* C22: a constructed task is of the Remote class exactly when the call gave
\* remote connection parameters, and its class never changes afterwards.
C22_VariantChosenAtConstruction ==
    /\ [](ctor.pc = "constructed" =>
             ctor.class = IF HasRemoteParameters THEN RemoteClassOf(ctor.cls) ELSE ctor.cls)
    /\ [][ctor.pc = "constructed" => ctor'.class = ctor.class]_vars

\* ------------------------------------------------------------- local and remote
\* What the command prints in the sandbox, for both variants.
PairOutputs == {<< >>, <<"a">>, <<"a", "nl", "a">>, <<"FATAL">>, <<"nl", "a", "tab">>}
Families == {"Apptainer", "Kubernetes"}
LocalOf(family) == IF family = "Apptainer" THEN "ApptainerTask" ELSE "KubernetesTask"
RemoteOf(family) == IF family = "Apptainer" THEN "RemoteApptainerTask" ELSE "RemoteKubernetesTask"

\* The loop of pre_process_command over the references found, every stage_in
\* succeeding: each reference to a task of the workflow is replaced.
RECURSIVE Rewritten(_, _, _)
Rewritten(k, command, refs) ==
    IF refs = << >> THEN command
    ELSE LET ref == Head(refs) IN
         Rewritten(k,
                   IF ref[1] \in WorkflowTasks
                   THEN Replace(command, workflow_url(ref[1], ref[2]), local_path(k, ref[1], ref[2]))
                   ELSE command,
                   Tail(refs))

\* The local and the remote task of one family, built for the command made of
\* toks, whose run in the sandbox prints out and exits with status exit.
PairStart(family, toks, out, exit) ==
    [pc |-> "run", family |-> family, command |-> Join(toks), out |-> out, exit |-> exit,
     local |-> << >>, remote |-> << >>, local_command |-> << >>, remote_command |-> << >>]

InitPair ==
    /\ kind = "ApptainerTask"
    /\ image = "docker"
    /\ remove = FALSE
    /\ InitFields
    /\ eq \in {PairStart(f, toks, out, exit) :
                  f \in Families, toks \in TokenLists, out \in PairOutputs, exit \in {0, 1}}
    /\ stg = NoStaging /\ xfer = NoTransfer /\ fmt = NoFormat
    /\ ctor = NoConstruction /\ cp = NoCheckpoints /\ wf = NoRun /\ InitLast

notPair == <<taskVars, nomadVars, workdirs, docker, ckpt, stg, xfer, fmt, ctor, cp, wf, lastVars>>

PairResult(status, output, code) == << [status |-> status, output |-> output, code |-> code] >>

\* ApptainerTask.on_execute and KubernetesTask.on_execute: the command is
\* pre-processed and run; ApptainerTask's exec raises on a non-zero exit and
\* the error text becomes the result, KubernetesTask's returns what was
\* printed; the result is escaped, wrapped in JSON and returned with code 0.
Pair_local_on_execute ==
    /\ eq.pc = "run" /\ eq.local = << >>
    /\ LET k == LocalOf(eq.family)
           result == IF k = "ApptainerTask" /\ eq.exit # 0
                     THEN <<"Error", ":", "sp", "a">>
                     ELSE strip(eq.out)
       IN eq' = [eq EXCEPT
                   !.local_command = Rewritten(k, eq.command, workflow_refs(eq.command)),
                   !.local = PairResult("returned", json_dumps(safe_result(result)), 0)]
    /\ UNCHANGED notPair

\* RemoteApptainerTask.on_execute runs the script it was given and returns the
\* ssh result, its code set to 0 when non-zero without FATAL or Error in the
\* output.  RemoteKubernetesTask.on_execute pre-processes the command with
\* local_path = file_path; exec_in_pod raises on a non-zero exit, otherwise the
\* result is wrapped like the local one.
Pair_remote_on_execute ==
    /\ eq.pc = "run" /\ eq.remote = << >>
    /\ LET k == RemoteOf(eq.family) IN
       eq' = IF k = "RemoteApptainerTask"
             THEN [eq EXCEPT
                     !.remote_command = eq.command,
                     !.remote = PairResult("returned", eq.out,
                                   RemoteApptainerTask_result_code(
                                       PipelineCode(eq.out # << >>),
                                       Contains(eq.out, <<"FATAL">>)))]
             ELSE [eq EXCEPT
                     !.remote_command = Rewritten(k, eq.command, workflow_refs(eq.command)),
                     !.remote = IF eq.exit # 0
                                THEN PairResult("raised", << >>, 0)
                                ELSE PairResult("returned",
                                                json_dumps(safe_result(strip(eq.out))), 0)]
    /\ UNCHANGED notPair

PairNext ==
    \/ Pair_local_on_execute
    \/ Pair_remote_on_execute

PairSpec == InitPair /\ [][PairNext]_vars

\* C23: run on the same command with the same backend response, the local and
\* the remote task of a family end with the same structured result, and the
\* Kubernetes pair dispatches the same rewritten command.
C23_LocalRemoteEquivalent ==
    (eq.pc = "run" /\ eq.local # << >> /\ eq.remote # << >>) =>
        /\ eq.local = eq.remote
        /\ eq.family = "Kubernetes" => eq.local_command = eq.remote_command

\* ------------------------------------------------------------- checkpoints
\* A workflow "wf" built with checkpoint_file = "last_run.json", with two
\* Checkpoint tasks c1 and c2 and a task A.  A working directory is counted in
\* "-checkpoint" suffixes after the scratch directory's name.
MaxTeardowns == 2
CheckpointTasks == {"c1", "c2"}
RecordedTasks == CheckpointTasks \cup {"A"}
NamedFiles == {"f", "g"}
checkpoint_file == <<"last_run", ".json">>
\* self.name + ".json"
TaskFile(c) == <<c, ".json">>
FileNames == {checkpoint_file} \cup {TaskFile(c) : c \in CheckpointTasks}

\* One Checkpoint task before its run: the files its command names are in
\* .dagon/inputs when they were staged (present), the scratch directory is made
\* when the task runs.
CheckpointTaskStart(variant, present) ==
    [variant |-> variant, inputs |-> present, root |-> {}, executed |-> FALSE,
     verified |-> FALSE, result |-> NoneResult, working_dir |-> 0, dirs |-> {},
     teardowns |-> 0, raised |-> FALSE]

InitCheckpoints ==
    /\ kind = "Checkpoint"
    /\ image = "docker"
    /\ remove = FALSE
    /\ InitFields
    /\ \E variants \in [CheckpointTasks -> {"Checkpoint", "RemoteCheckpoint"}],
          present \in [CheckpointTasks -> SUBSET NamedFiles] :
          cp = [pc |-> "run",
                tasks |-> [c \in CheckpointTasks |->
                              CheckpointTaskStart(variants[c], present[c])],
                checkpoints |-> [r \in RecordedTasks |-> [working_dir |-> 0]],
                files |-> [n \in FileNames |-> NoFile]]
    /\ stg = NoStaging /\ xfer = NoTransfer /\ fmt = NoFormat
    /\ ctor = NoConstruction /\ eq = NoPair /\ wf = NoRun /\ InitLast

notCheckpoints == <<taskVars, nomadVars, workdirs, docker, ckpt, stg, xfer, fmt, ctor, eq, wf, lastVars>>

\* Checkpoint.execute_command: `code, message = 1, err` only `if len(err)`; the
\* exit status of the process is not read.
execute_command_code(stderr_empty, exit) == IF stderr_empty THEN 0 ELSE 1

\* on_execute: the script runs in the scratch directory.  checkpoint.sh exits
\* with -1, printing nothing, at the first named file that is missing;
\* otherwise it moves .dagon/inputs/* into the scratch directory.  The local
\* result's code comes from execute_command, the remote one is the ssh result.
Checkpoint_run(c) ==
    /\ cp.pc = "run"
    /\ ~cp.tasks[c].executed /\ cp.tasks[c].teardowns = 0
    /\ LET tk == cp.tasks[c]
           found == NamedFiles \subseteq tk.inputs
           exit == IF found THEN 0 ELSE 255
       IN \E stderr_empty \in BOOLEAN :
            cp' = [cp EXCEPT !.tasks[c] =
                     [tk EXCEPT !.executed = TRUE,
                                !.verified = found,
                                !.dirs = @ \cup {tk.working_dir},
                                !.root = IF found THEN tk.inputs ELSE {},
                                !.inputs = IF found THEN {} ELSE tk.inputs,
                                !.result = IF tk.variant = "Checkpoint"
                                           THEN Result("out", execute_command_code(stderr_empty, exit))
                                           ELSE Result("out", exit)]]
    /\ UNCHANGED notCheckpoints

\* The rest of on_garbage after the move: working_dir takes the new name, the
\* workflow's entry of the task gets it, and the whole map is written to
\* self.name + ".json".
Recorded(c, tk) ==
    LET map == [cp.checkpoints EXCEPT ![c].working_dir = tk.working_dir + 1] IN
    [cp EXCEPT !.tasks[c] = [tk EXCEPT !.working_dir = @ + 1, !.teardowns = @ + 1,
                                      !.raised = FALSE],
               !.checkpoints = map,
               !.files[TaskFile(c)] = File(map)]

\* Checkpoint.on_garbage: shutil.move raises when working_dir is not there and
\* nothing else is done.
Checkpoint_teardown(c) ==
    /\ cp.pc = "run"
    /\ cp.tasks[c].variant = "Checkpoint" /\ cp.tasks[c].teardowns < MaxTeardowns
    /\ LET tk == cp.tasks[c] IN
       cp' = IF tk.working_dir \in tk.dirs
             THEN Recorded(c, [tk EXCEPT !.dirs = (@ \ {tk.working_dir}) \cup {tk.working_dir + 1}])
             ELSE [cp EXCEPT !.tasks[c].teardowns = @ + 1, !.tasks[c].raised = TRUE]
    /\ UNCHANGED notCheckpoints

\* RemoteCheckpoint.on_garbage: `mv` over ssh, its result not looked at; the
\* rest is done whether the directory was moved or not.
RemoteCheckpoint_teardown(c) ==
    /\ cp.pc = "run"
    /\ cp.tasks[c].variant = "RemoteCheckpoint" /\ cp.tasks[c].teardowns < MaxTeardowns
    /\ LET tk == cp.tasks[c] IN
       cp' = IF tk.working_dir \in tk.dirs
             THEN Recorded(c, [tk EXCEPT !.dirs = (@ \ {tk.working_dir}) \cup {tk.working_dir + 1}])
             ELSE Recorded(c, tk)
    /\ UNCHANGED notCheckpoints

CheckpointsNext ==
    \E c \in CheckpointTasks :
        \/ Checkpoint_run(c)
        \/ Checkpoint_teardown(c)
        \/ RemoteCheckpoint_teardown(c)

CheckpointsSpec == InitCheckpoints /\ [][CheckpointsNext]_vars

\* Task c's teardown ran in this step and returned normally.
TeardownReturned(c) ==
    /\ cp'.tasks[c].teardowns = cp.tasks[c].teardowns + 1
    /\ ~cp'.tasks[c].raised

\* C24: after a Checkpoint teardown returns, the working directory is on disk
\* under the old name plus "-checkpoint" and no longer under the old name,
\* working_dir is the new name, the task's entry of the map has it, the other
\* entries are unchanged and the JSON file written holds the whole map.
C24_TeardownRenamesAndRecords ==
    [][\A c \in CheckpointTasks : TeardownReturned(c) =>
          LET old == cp.tasks[c].working_dir IN
          /\ old + 1 \in cp'.tasks[c].dirs /\ old \notin cp'.tasks[c].dirs
          /\ cp'.tasks[c].working_dir = old + 1
          /\ cp'.checkpoints[c].working_dir = old + 1
          /\ \A r \in RecordedTasks \ {c} : cp'.checkpoints[r] = cp.checkpoints[r]
          /\ \E n \in FileNames : cp'.files[n] = File(cp'.checkpoints)]_vars

\* C25: a Checkpoint teardown writes the records to the workflow's checkpoint
\* file and to no other file.
C25_WorkflowScopedCheckpointFile ==
    cp.pc = "run" => \A n \in FileNames : cp.files[n] # NoFile => n = checkpoint_file

\* C26: a task's directory is renamed and its record written only when the
\* task ran and its verification passed.
C26_RecordOnlyWhenCompleted ==
    cp.pc = "run" =>
        \A c \in CheckpointTasks :
            (cp.tasks[c].working_dir > 0 \/ cp.checkpoints[c].working_dir > 0
               \/ cp.files[TaskFile(c)] # NoFile)
            => cp.tasks[c].executed /\ cp.tasks[c].verified

\* C27: when a named input file is missing the task's result has a non-zero
\* code and no input file was moved into the scratch directory.
C27_MissingInputRejected ==
    cp.pc = "run" =>
        \A c \in CheckpointTasks :
            (cp.tasks[c].executed /\ ~cp.tasks[c].verified)
            => cp.tasks[c].result[1].code # 0 /\ cp.tasks[c].root = {}

\* ------------------------------------------------------------- workflow run
\* The engine that runs the DAG, after the design's task state machine:
\* READY-WAIT -> READY -> RUNNING -> DONE | FAILED.  The task named C is a
\* Checkpoint task; the others are of one backend class.
Nodes == {"A", "B", "C", "D"}
NodeOrder == [A |-> 1, B |-> 2, C |-> 3, D |-> 4]
CheckpointNode == "C"
RunBackends == {"ApptainerTask", "RemoteApptainerTask", "RemoteKubernetesTask"}

\* Every DAG on the nodes whose edges go forward in NodeOrder.
Dags == {g \in [Nodes -> SUBSET Nodes] : \A n \in Nodes : \A q \in g[n] : NodeOrder[q] < NodeOrder[n]}

RECURSIVE Ancestors(_, _)
Ancestors(g, n) == g[n] \cup UNION {Ancestors(g, q) : q \in g[n]}

\* How on_execute of a task of class k ends when its command exits with
\* `exit`: ApptainerTask always returns code 0; RemoteApptainerTask returns the
\* code of the grep pipeline, set to 0 without FATAL or Error in the output;
\* RemoteKubernetesTask raises on a non-zero exit; Checkpoint's code is 1 when
\* something was written to stderr.
OnExecuteEnds(k, exit, lines, marker, stderr_empty) ==
    CASE k = "ApptainerTask" -> 0
      [] k = "RemoteApptainerTask" -> RemoteApptainerTask_result_code(PipelineCode(lines), marker)
      [] k = "RemoteKubernetesTask" -> IF exit # 0 THEN 1 ELSE 0
      [] k = "Checkpoint" -> execute_command_code(stderr_empty, exit)

ClassOf(n, backend) == IF n = CheckpointNode THEN "Checkpoint" ELSE backend

RunStart(g, fails, backend) ==
    [pc |-> "run", preds |-> g, fails |-> fails, backend |-> backend, run |-> 1,
     state |-> [n \in Nodes |-> "READY_WAIT"],
     runs |-> [n \in Nodes |-> 0],
     failed_command |-> {},
     checkpoints |-> [n \in {} |-> 0],
     dirs |-> [n \in Nodes |-> {}],
     read |-> [n \in Nodes |-> << >>],
     file |-> NoFile]

InitRun ==
    /\ kind = "ApptainerTask"
    /\ image = "docker"
    /\ remove = FALSE
    /\ InitFields
    /\ wf \in {RunStart(g, fails, b) :
                  g \in Dags, fails \in {{}} \cup {{n} : n \in Nodes}, b \in RunBackends}
    /\ stg = NoStaging /\ xfer = NoTransfer /\ fmt = NoFormat
    /\ ctor = NoConstruction /\ eq = NoPair /\ cp = NoCheckpoints /\ InitLast

notRun == <<taskVars, nomadVars, workdirs, docker, ckpt, stg, xfer, fmt, ctor, eq, cp, lastVars>>

SomePredecessorDone(w, n) ==
    w.preds[n] # {} => \E q \in w.preds[n] : w.state[q] = "DONE"

AllPredecessorsDone(w, n) == \A q \in w.preds[n] : w.state[q] = "DONE"

\* READY-WAIT -> READY
Run_ready(n) ==
    /\ wf.pc = "run" /\ wf.state[n] = "READY_WAIT"
    /\ AllPredecessorsDone(wf, n)
    /\ wf' = [wf EXCEPT !.state[n] = "READY"]
    /\ UNCHANGED notRun

\* READY -> RUNNING: the command is dispatched in the task's scratch directory;
\* a reference to the Checkpoint task is read from the directory the
\* workflow's record of it names.
Run_dispatch(n) ==
    /\ wf.pc = "run" /\ wf.state[n] = "READY"
    /\ wf' = [wf EXCEPT !.state[n] = "RUNNING",
                        !.runs[n] = @ + 1,
                        !.dirs[n] = @ \cup {0},
                        !.read[n] = IF CheckpointNode \in wf.preds[n]
                                    THEN <<wf.checkpoints[CheckpointNode]>> ELSE << >>]
    /\ UNCHANGED notRun

\* RUNNING -> DONE when on_execute returned code 0, FAILED when it returned
\* another code or raised.  A DONE task is entered in the workflow's
\* checkpoints; the Checkpoint task's teardown renames its directory, records
\* the new name and writes the map to the file.
Run_complete(n) ==
    /\ wf.pc = "run" /\ wf.state[n] = "RUNNING"
    /\ \E lines \in BOOLEAN, marker \in BOOLEAN, stderr_empty \in BOOLEAN :
         /\ marker => lines
         /\ LET exit == IF n \in wf.fails THEN 1 ELSE 0
                code == OnExecuteEnds(ClassOf(n, wf.backend), exit, lines, marker, stderr_empty)
                renamed == IF n = CheckpointNode THEN 1 ELSE 0
                map == [q \in DOMAIN wf.checkpoints \cup {n} |->
                           IF q = n THEN renamed ELSE wf.checkpoints[q]]
            IN wf' = IF code # 0
                     THEN [wf EXCEPT !.state[n] = "FAILED",
                                     !.failed_command = @ \cup {n}]
                     ELSE [wf EXCEPT !.state[n] = "DONE",
                                     !.failed_command = @ \cup (IF exit # 0 THEN {n} ELSE {}),
                                     !.checkpoints = map,
                                     !.dirs[n] = IF n = CheckpointNode THEN {1} ELSE @,
                                     !.file = IF n = CheckpointNode THEN File(map) ELSE @]
    /\ UNCHANGED notRun

\* The state a task starts a run in, given the records of the checkpoint file
\* the run is started with (and the same with the file not looked at).
LoadedIgnoringFile(records, n) == "READY_WAIT"

Loaded(records, n) == IF n \in DOMAIN records THEN "DONE" ELSE "READY_WAIT"

\* The process ends at any point after the Checkpoint task's teardown wrote
\* the file, and the workflow is run again with that file.
Run_restart ==
    /\ wf.pc = "run" /\ wf.run = 1 /\ wf.file # NoFile
    /\ wf' = [wf EXCEPT !.run = 2,
                        !.state = [n \in Nodes |-> Loaded(wf.file[1], n)],
                        !.runs = [n \in Nodes |-> 0],
                        !.read = [n \in Nodes |-> << >>],
                        !.failed_command = {},
                        !.checkpoints = wf.file[1]]
    /\ UNCHANGED notRun

RunNext ==
    \/ \E n \in Nodes : Run_ready(n)
    \/ \E n \in Nodes : Run_dispatch(n)
    \/ \E n \in Nodes : Run_complete(n)
    \/ Run_restart

RunSpec == InitRun /\ [][RunNext]_vars

C29_RunningOnlyAfterPredecessors ==
    wf.pc = "run" =>
        \A n \in Nodes : wf.state[n] = "RUNNING" => \A q \in wf.preds[n] : wf.state[q] = "DONE"

\* Two independent tasks RUNNING at once, each with two DONE predecessors.
C29_Witness ==
    /\ wf.pc = "run"
    /\ \E n, m \in Nodes :
          /\ n # m /\ wf.state[n] = "RUNNING" /\ wf.state[m] = "RUNNING"
          /\ wf.preds[n] = {"A", "B"} /\ wf.preds[m] = {"A", "B"}

\* C30: a task whose command failed is FAILED, never DONE, and none of its
\* transitive dependents is ever RUNNING or DONE.
C30_FailureStopsDependents ==
    wf.pc = "run" =>
        \A n \in wf.failed_command :
            /\ wf.state[n] = "FAILED"
            /\ \A d \in Nodes :
                  n \in Ancestors(wf.preds, d) => wf.state[d] \in {"READY_WAIT", "READY"}

\* ------------------------------------------------------------- teardown
Teardown == hist'.teardowns = hist.teardowns + 1

\* Thread t, the only caller the task has had, ended its last call in a teardown
\* and now tears down again.
RepeatedTeardownBy(t) ==
    /\ Teardown
    /\ Returned(t, "on_garbage")
    /\ \A u \in Threads \ {t} :
          pc[u] = "idle" /\ outcome[u].op = "none" /\ outcome'[u].op = "none"

\* C18: a teardown never raises, whatever the lifecycle state, and a teardown
\* that follows a teardown leaves the task's state, its recorded working
\* directory included, as the first one left it.
C18_TeardownIdempotent ==
    /\ [](\A t \in Threads : outcome[t].op = "on_garbage" => outcome[t].status = "returned")
    /\ [][\A t \in Threads : RepeatedTeardownBy(t) =>
              /\ task' = task
              /\ docker'.container = docker.container
              /\ ckpt'.working_dir = ckpt.working_dir]_vars

\* C19: after a teardown of a sandbox task returns, container_id / pod_name and
\* info are None, with the keep flag or without.
C19_TeardownClearsIdentity ==
    \A t \in Threads :
        (kind \in SandboxKinds /\ Returned(t, "on_garbage")) => outcome[t].after = "absent"

\* The sandbox whose persistent artifact a teardown would delete exists.
SandboxExists ==
    CASE kind = "ApptainerTask" -> task.work_dir # NonePath /\ task.container_id \in workdirs
      [] kind = "RemoteApptainerTask" -> task.info # NoneId
      [] kind \in KubernetesKinds -> task.pod_name # NoneId
      [] kind = "DockerTask" -> DockerState(docker) \in {"running", "exited"}
      [] OTHER -> FALSE

TeardownAttemptFailed(t) ==
    /\ outcome[t].op = "on_garbage"
    /\ \/ kind = "DockerTask" /\ outcome[t].after = "removed"
       \/ kind = "Checkpoint" /\ outcome[t].after = "absent"

\* C21: a failure to stop, delete or rename the sandbox during teardown does
\* not leave on_garbage as an exception, and a teardown leaves the memoized
\* result as it was.
C21_TeardownFailureSwallowed ==
    /\ [](\A t \in Threads : TeardownAttemptFailed(t) => outcome[t].status = "returned")
    /\ [][Teardown => /\ task'.executed = task.executed
                      /\ task'.execution_result = task.execution_result]_vars

\* ------------------------------------------------------------- one job per NomadTask
\* C31: a NomadTask has at most one physical job: over any sequence of
\* pre_process_command / _submit_job / on_execute calls at most one submission is
\* accepted by the Nomad server, and once job_submitted is True job_id names a
\* submitted job.
C31_AtMostOneJobAccepted ==
    kind = "NomadTask" =>
        /\ n_hist.accepted <= 1
        /\ job_submitted => job_id # NoneId

\* ------------------------------------------------------------- the script's own outcome
\* C32: RemoteApptainerTask.on_execute reports the user script's own outcome:
\* whenever the script run in the container exits with a non-zero status, the
\* result returned and memoized has a non-zero code, whatever the script printed.
C32_RemoteApptainerReportsScriptFailure ==
    \A t \in Threads :
        ( /\ kind = "RemoteApptainerTask"
          /\ outcome[t].op = "on_execute" /\ outcome[t].status = "returned"
          /\ outcome[t].value # NoneResult
          /\ outcome[t].value[1].output = OutputOf("exitNonZero") )
        => /\ outcome[t].value[1].code # 0
           /\ task.execution_result # NoneResult
           /\ task.execution_result[1].code # 0

\* ------------------------------------------------------------- one stage_in per occurrence
IsReferenceToken(tok) == tok[1] = "W"
SourceExists(r) == r[1] \in WorkflowTasks
ReferenceOf(tok) == << <<tok[2]>>, SubSeq(tok, 4, Len(tok)) >>

\* The references of the original command whose source task exists, one per
\* textual occurrence, left to right.
OccurrencesToStage ==
    LET toks == SelectSeq(stg.tokens, IsReferenceToken)
        refs == [k \in 1 .. Len(toks) |-> ReferenceOf(toks[k])]
    IN  SelectSeq(refs, SourceExists)

IsPrefix(a, b) == Len(a) <= Len(b) /\ SubSeq(b, 1, Len(a)) = a

\* C33: reference resolution runs stage_in once per textual occurrence: the
\* stage_in calls made so far are the first occurrences with an existing source,
\* in left-to-right order, repeated identical references counted separately, and
\* when pre_process_command returns there has been exactly one call per occurrence.
C33_StageInPerOccurrence ==
    stg.pc # "none" =>
        /\ IsPrefix(stg.staged, OccurrencesToStage)
        /\ PreProcessReturned => stg.staged = OccurrencesToStage

\* A command with the same reference twice has been resolved with two calls.
C33_Witness ==
    /\ stg.pc # "none" /\ PreProcessReturned
    /\ Len(stg.staged) = 2 /\ stg.staged[1] = stg.staged[2]

\* ------------------------------------------------------------- concurrent stage_in
\* Two dependents resolve references to source task A at the same time, each in
\* its own thread.  The clock is int(time.time()*1000).
MaxClock == 2
Dependents == {1, 2}
StagedPaths == {<<"b", "/", "c">>, <<"b", "_", "c">>, <<"g">>}
SourceName == <<"A">>

\* staging_filename = f"{src_task.name}_{src_path.replace('/', '_')}_{int(time.time()*1000)}"
staging_filename(src_name, src_path, ms) ==
    src_name \o <<"_">> \o Underscored(src_path) \o <<"_", ToString(ms)>>

SlotNames == {staging_filename(SourceName, q, ms) : q \in StagedPaths, ms \in 0 .. MaxClock}

\* Every source file holds bytes of its own: here its path.
ConcurrentStart(paths) ==
    [pc |-> "run", at |-> [d \in Dependents |-> "stage_in"], src_path |-> paths,
     now |-> 0, name |-> [d \in Dependents |-> << >>],
     staging |-> [n \in SlotNames |-> NoFile],
     our_staging |-> [d \in Dependents |-> NoFile],
     D |-> [d \in Dependents |-> NoFile]]

InitConcurrent ==
    /\ kind \in ApptainerKinds
    /\ image = "docker"
    /\ remove = FALSE
    /\ InitFields
    /\ cs \in {ConcurrentStart(paths) : paths \in [Dependents -> StagedPaths]}
    /\ stg = NoStaging /\ xfer = NoTransfer /\ fmt = NoFormat
    /\ ctor = NoConstruction /\ eq = NoPair /\ cp = NoCheckpoints /\ wf = NoRun
    /\ lp = NoPaths /\ sr = NoSource

notConcurrent == <<taskVars, nomadVars, workdirs, docker, ckpt, stg, xfer, fmt, ctor, eq, cp, wf, lp, sr>>

\* The millisecond clock advances.
Concurrent_tick ==
    /\ cs.pc = "run" /\ cs.now < MaxClock
    /\ cs' = [cs EXCEPT !.now = @ + 1]
    /\ UNCHANGED notConcurrent

\* stage_in: the slot name is formed from the source, the path and the clock.
Concurrent_stage_in(d) ==
    /\ cs.pc = "run" /\ cs.at[d] = "stage_in"
    /\ cs' = [cs EXCEPT !.at[d] = "named",
                        !.name[d] = staging_filename(SourceName, cs.src_path[d], cs.now)]
    /\ UNCHANGED notConcurrent

\* src_task.export_file_to_staging: `cp src_path staging_path` in the source's
\* sandbox; the file is there, so the check of staging_path passes.
Concurrent_export_file_to_staging(d) ==
    /\ cs.pc = "run" /\ cs.at[d] = "named"
    /\ cs' = [cs EXCEPT !.at[d] = "exported",
                        !.staging[cs.name[d]] = File(cs.src_path[d])]
    /\ UNCHANGED notConcurrent

\* ApptainerTask.stage_in: shutil.copy2(staging_path, our_staging_path), which
\* raises when staging_path is gone.
Concurrent_copy(d) ==
    /\ cs.pc = "run" /\ kind = "ApptainerTask" /\ cs.at[d] = "exported"
    /\ cs' = IF cs.staging[cs.name[d]] = NoFile THEN [cs EXCEPT !.at[d] = "raised"]
             ELSE [cs EXCEPT !.at[d] = "copied",
                             !.our_staging[d] = cs.staging[cs.name[d]]]
    /\ UNCHANGED notConcurrent

\* import_file_from_staging: ApptainerTask copies our_staging_path to dst_path in
\* its container; RemoteApptainerTask runs `cp staging_path dst_path` over ssh
\* and raises on a non-zero exit.
Concurrent_import_file_from_staging(d) ==
    /\ cs.pc = "run"
    /\ \/ /\ kind = "ApptainerTask" /\ cs.at[d] = "copied"
          /\ cs' = [cs EXCEPT !.at[d] = "imported", !.D[d] = cs.our_staging[d]]
       \/ /\ kind = "RemoteApptainerTask" /\ cs.at[d] = "exported"
          /\ cs' = IF cs.staging[cs.name[d]] = NoFile THEN [cs EXCEPT !.at[d] = "raised"]
                   ELSE [cs EXCEPT !.at[d] = "imported", !.D[d] = cs.staging[cs.name[d]]]
    /\ UNCHANGED notConcurrent

\* The slot is deleted (os.remove with OSError passed over, or `rm -f`), and
\* stage_in returns.
Concurrent_cleanup(d) ==
    /\ cs.pc = "run" /\ cs.at[d] = "imported"
    /\ cs' = [cs EXCEPT !.at[d] = "returned",
                        !.staging[cs.name[d]] = NoFile,
                        !.our_staging[d] = NoFile]
    /\ UNCHANGED notConcurrent

ConcurrentNext ==
    \/ Concurrent_tick
    \/ \E d \in Dependents :
          \/ Concurrent_stage_in(d)
          \/ Concurrent_export_file_to_staging(d)
          \/ Concurrent_copy(d)
          \/ Concurrent_import_file_from_staging(d)
          \/ Concurrent_cleanup(d)

ConcurrentSpec == InitConcurrent /\ [][ConcurrentNext]_vars

\* Dependent d holds a slot of the source's staging directory.
HoldsSlot(d) == cs.at[d] \in {"named", "exported", "copied", "imported"}

\* C34: two stage_in operations under way on the same source never hold the
\* same slot path of the source's staging directory, no stage_in fails while
\* the source file exists, and a stage_in that returned delivered the bytes of
\* the path it asked for.
C34_ConcurrentSlotsDistinct ==
    cs.pc = "run" =>
        /\ \A d, e \in Dependents :
              d # e /\ HoldsSlot(d) /\ HoldsSlot(e) => cs.name[d] # cs.name[e]
        /\ \A d \in Dependents :
              /\ cs.at[d] # "raised"
              /\ cs.at[d] = "returned" => cs.D[d] = File(cs.src_path[d])

\* ------------------------------------------------------------- the wait's result
\* The first allocation shows the task dead with a last event 'Terminated'.
TerminatedEvent(alloc) ==
    /\ alloc.has_alloc /\ alloc.has_task_state /\ alloc.state = "dead"
    /\ alloc.has_events /\ alloc.last_event = "Terminated"

\* C35: _wait_for_completion returns code 0 only when the job is dead, its first
\* allocation has the task in state 'dead' and the last event is 'Terminated'
\* with ExitCode 0; a 'Terminated' event with a non-zero ExitCode yields that
\* code; every other dead job (no allocation, no task state, no events, another
\* last event, no ExitCode) and a wait that never saw the job dead yield a
\* non-zero code.  on_execute puts the logs in the output only when the code is 0.
C35_CodeZeroOnlyOnCleanTermination ==
    kind = "NomadTask" =>
        /\ n_pc = "returned" =>
              /\ n_result # NoneResult
              /\ n_hist.seen = << >> => n_result[1].code # 0
              /\ n_hist.seen # << >> =>
                    LET alloc == n_hist.seen[1] IN
                    /\ n_hist.saw_dead
                    /\ n_result[1].code = 0 <=>
                          (TerminatedEvent(alloc) /\ alloc.has_exit_code /\ alloc.exit_code = 0)
                    /\ (TerminatedEvent(alloc) /\ alloc.has_exit_code /\ alloc.exit_code # 0)
                          => n_result[1].code = alloc.exit_code
        /\ (n_pc = "idle" /\ n_result # NoneResult) =>
              (n_result[1].output = "logs" <=> n_result[1].code = 0)

\* The wait has returned the exit code 137 of a terminated task.
C35_Witness ==
    /\ kind = "NomadTask" /\ n_pc = "returned" /\ n_hist.seen # << >>
    /\ TerminatedEvent(n_hist.seen[1])
    /\ n_result[1].code = 137

\* ------------------------------------------------------------- destination paths
\* A command with two references; every named task is in the workflow.
ReferencedTasks == {<<"A">>, <<"A", "_", "b">>, <<"B">>}
ReferencedPaths == {<<"b", "/", "c">>, <<"b", "_", "c">>, <<"c">>}
References == ReferencedTasks \X ReferencedPaths

PathsStart(refs) ==
    [pc |-> "refs", refs |-> refs, done |-> 0, paths |-> << >>, files |-> << >>]

InitPaths ==
    /\ kind \in ReferenceKinds
    /\ image = "docker"
    /\ remove = FALSE
    /\ InitFields
    /\ lp \in {PathsStart(<<r1, r2>>) : r1 \in References, r2 \in References}
    /\ stg = NoStaging /\ xfer = NoTransfer /\ fmt = NoFormat
    /\ ctor = NoConstruction /\ eq = NoPair /\ cp = NoCheckpoints /\ wf = NoRun
    /\ cs = NoConcurrent /\ sr = NoSource

notPaths == <<taskVars, nomadVars, workdirs, docker, ckpt, stg, xfer, fmt, ctor, eq, cp, wf, cs, sr>>

\* One round of the loop of pre_process_command: local_path is formed for the
\* next reference and stage_in writes the source file's bytes there (files lists
\* the writes: the path and the reference whose bytes went in).
Paths_resolve ==
    /\ lp.pc = "refs" /\ lp.done < Len(lp.refs)
    /\ LET r == lp.refs[lp.done + 1]
           path == local_path(kind, r[1], r[2])
       IN  lp' = [lp EXCEPT !.done = @ + 1,
                            !.paths = Append(@, path),
                            !.files = Append(@, <<path, r>>)]
    /\ UNCHANGED notPaths

\* pre_process_command returns the command.
Paths_return ==
    /\ lp.pc = "refs" /\ lp.done = Len(lp.refs)
    /\ lp' = [lp EXCEPT !.pc = "returned"]
    /\ UNCHANGED notPaths

PathsNext == Paths_resolve \/ Paths_return

PathsSpec == InitPaths /\ [][PathsNext]_vars

\* C36: within one command distinct references resolve to distinct destination
\* paths, so no Import overwrites the file of another reference.
C36_DistinctReferencesDistinctPaths ==
    lp.pc # "none" =>
        \A i, j \in 1 .. Len(lp.paths) :
            lp.refs[i] # lp.refs[j] => lp.paths[i] # lp.paths[j]

\* ------------------------------------------------------------- what a remote teardown removes
\* C37: teardown of a RemoteApptainerTask removes only what the task created
\* (the SIF build directory under tmp_dir, the staging directory); in particular
\* a pre-existing .sif file supplied as the image is still there afterwards.
C37_RemoteTeardownKeepsSuppliedImage ==
    [][(Teardown /\ kind = "RemoteApptainerTask" /\ image = "sif_present")
          => image' = "sif_present"]_vars

\* ------------------------------------------------------------- one Docker container
\* C38: a DockerTask has one container for its whole life: once a
\* pre_process_command has created it, every later pre_process_command on the
\* task resolves to that same container and succeeds without creating another.
C38_LaterPreProcessKeepsContainer ==
    [][\A t \in Threads :
          ( /\ DockerTask_pre_process_command(t)
            /\ docker.container # NoneId /\ DockerState(docker) = "running" )
          => /\ outcome'[t].status = "returned"
             /\ docker'.container = docker.container
             /\ docker'.runs = docker.runs]_vars

\* ------------------------------------------------------------- the source's sandbox
\* Source task X (an ApptainerTask) writes file P when its command runs; a
\* dependent resolves workflow:///X/P.  work[i] is what the work directory of
\* X's sandbox i holds at P: "none" before the directory exists, "empty" with no
\* file there, "bytes" with X's output, "removed" after rmtree.
MaxResolves == 2

SourceStart(rm) ==
    [pc |-> "run", remove |-> rm, container_id |-> NoneId, executed |-> FALSE,
     ids |-> 0, ran_in |-> NoneId, torn_down |-> FALSE, teardowns |-> 0,
     work |-> [i \in Ids |-> "none"],
     at |-> "idle", resolves |-> 0, exported_from |-> NoneId, provisioned_anew |-> FALSE,
     delivered |-> "none"]

InitSource ==
    /\ kind = "ApptainerTask"
    /\ image = "docker"
    /\ remove = FALSE
    /\ InitFields
    /\ sr \in {SourceStart(rm) : rm \in BOOLEAN}
    /\ stg = NoStaging /\ xfer = NoTransfer /\ fmt = NoFormat
    /\ ctor = NoConstruction /\ eq = NoPair /\ cp = NoCheckpoints /\ wf = NoRun
    /\ cs = NoConcurrent /\ lp = NoPaths

notSource == <<taskVars, nomadVars, workdirs, docker, ckpt, stg, xfer, fmt, ctor, eq, cp, wf, cs, lp>>

\* X.create_container() when container_id is None: a new identity and a new,
\* empty work directory apptainer_work_<container_id>.
SourceProvisioned(s) ==
    [s EXCEPT !.container_id = s.ids + 1, !.ids = @ + 1, !.work[s.ids + 1] = "empty"]

\* `if src_task.container_id is None: src_task.create_container()`
Ensured(s) == IF s.container_id = NoneId THEN SourceProvisioned(s) ELSE s

\* X.on_execute: the memoized result when executed; otherwise the sandbox is
\* made if there is none and the command runs in it, writing P or failing to.
Source_on_execute ==
    /\ sr.pc = "run" /\ ~sr.executed /\ sr.at # "export"
    /\ sr.container_id # NoneId \/ sr.ids < MaxIds
    /\ LET s == Ensured(sr) IN
       \E wrote \in BOOLEAN :
          sr' = [s EXCEPT !.executed = TRUE, !.ran_in = s.container_id,
                          !.work[s.container_id] = IF wrote THEN "bytes" ELSE @]
    /\ UNCHANGED notSource

\* X.on_garbage -> cleanup_container: rmtree of work_dir with remove set (a
\* failure is printed), then container_id and the paths are cleared.
Source_cleanup_container ==
    /\ sr.pc = "run" /\ sr.executed /\ sr.teardowns < MaxTeardowns
    /\ sr.at \in {"idle", "returned", "raised"}
    /\ \E removed \in BOOLEAN :
          sr' = IF sr.container_id = NoneId
                THEN [sr EXCEPT !.teardowns = @ + 1]
                ELSE [sr EXCEPT !.teardowns = @ + 1, !.container_id = NoneId,
                                !.torn_down = @ \/ sr.container_id = sr.ran_in,
                                !.work[sr.container_id] =
                                    IF sr.remove /\ removed THEN "removed" ELSE @]
    /\ UNCHANGED notSource

\* The dependent's pre_process_command finds X and ensures X has a sandbox;
\* create_container raises when the image build fails, the identity being set.
Resolve_ensure ==
    /\ sr.pc = "run" /\ sr.at \in {"idle", "returned", "raised"} /\ sr.resolves < MaxResolves
    /\ sr.container_id # NoneId \/ sr.ids < MaxIds
    /\ \E built \in BOOLEAN :
          /\ sr.container_id # NoneId => built
          /\ sr' = [Ensured(sr) EXCEPT
                       !.at = IF built THEN "export" ELSE "raised",
                       !.resolves = @ + 1, !.delivered = "none",
                       !.exported_from = NoneId,
                       !.provisioned_anew = @ \/ (sr.torn_down /\ sr.container_id = NoneId)]
    /\ UNCHANGED notSource

\* stage_in -> X.export_file_to_staging: `cp P /staging/<slot>` in X's current
\* work directory; with no file there the slot is not created and it raises.
Resolve_export ==
    /\ sr.pc = "run" /\ sr.at = "export"
    /\ sr' = IF sr.container_id # NoneId /\ sr.work[sr.container_id] = "bytes"
             THEN [sr EXCEPT !.at = "returned", !.delivered = "bytes",
                             !.exported_from = sr.container_id]
             ELSE [sr EXCEPT !.at = "raised", !.exported_from = sr.container_id]
    /\ UNCHANGED notSource

SourceNext ==
    \/ Source_on_execute
    \/ Source_cleanup_container
    \/ Resolve_ensure
    \/ Resolve_export

SourceSpec == InitSource /\ [][SourceNext]_vars

\* C39: a reference to X is read from the sandbox in which X's command ran: when
\* that sandbox has been torn down, resolution does not provision a new sandbox
\* for X and export from it; a resolution that returns delivered the bytes X
\* produced.
C39_ReferenceReadFromExecutionSandbox ==
    sr.pc = "run" =>
        /\ ~sr.provisioned_anew
        /\ (sr.exported_from # NoneId /\ sr.executed /\ sr.ran_in # NoneId)
              => sr.exported_from = sr.ran_in
        /\ sr.at = "returned" => sr.delivered = "bytes"

\* ------------------------------------------------------------- the memoized result
\* A step keeps executed once it is True and execution_result once it is set.
MemoKept ==
    /\ task.executed => task'.executed
    /\ task.execution_result # NoneResult => task'.execution_result = task.execution_result

\* C40: in every reachable state of an Apptainer or Kubernetes task (local or
\* remote) executed is True exactly when execution_result is set; once executed
\* is True it is never reset and execution_result never changes, whatever
\* operation comes later, teardown and re-creation of the sandbox included.
C40_ExecutedIffResultAndStable ==
    /\ [](kind \in SandboxKinds =>
             (task.executed <=> task.execution_result # NoneResult))
    /\ [][(kind \in SandboxKinds) => MemoKept]_vars

====
